---- MODULE Spec2Model ----
(***************************************************************************)
(* State-machine model of the AudSync client/server audio relay.           *)
(*                                                                         *)
(*   SpecRender  RenderSource's sequence-keyed jitter buffer               *)
(*               (src/src/RenderSource.cpp)                                *)
(*   SpecJitter  the priority-queue JitterBuffer (src/src/JitterBuffer.cpp)*)
(*   Spec        the AudioServer relay over NetworkManager                 *)
(*               (src/src/AudioServer.cpp, src/src/NetworkManager.cpp)     *)
(*   SpecCodec   the two wire codecs (src/src/Message.cpp,                 *)
(*               src/src/NetworkManager.cpp)                               *)
(*                                                                         *)
(* Every specification moves its own variables and leaves the others at    *)
(* their initial values.                                                   *)
(***************************************************************************)
EXTENDS Integers, Sequences, FiniteSets

\* ------------------------------------------------------------------ bounds
\* Sequence numbers offered to the jitter buffers are 0..MaxSeq.
MaxSeq == 3
\* Packets handed to RenderSource::addReceivedPacket over a whole run.
MaxPackets == 3
\* Cap on RenderSource::totalPacketsLost_ (silence insertions) in a run.
MaxLost == 1
\* Packet interval in ms (framesPerBuffer / sampleRate * 1000), e.g. 441 @ 44100.
PacketIntervalMs == 10
\* Sequence numbers offered to JitterBuffer::addPacket are 0..JbMaxSeq.
JbMaxSeq == 5
\* Packets handed to JitterBuffer::addPacket between two clear() calls.
JbMaxPackets == 3
\* Largest capacity given to JitterBuffer (constructor, setMaxBufferSize).
JbMaxCapacity == 4
\* Longest payload, in bytes, given to the codecs.
MaxPayloadLen == 2
\* Clients that connect to the server; accept() hands out sockets 1..NumClients.
NumClients == 3
\* AUDIO_DATA frames sent by all clients together in a run.
MaxFrames == 2
\* Frames a client's receive path holds before the server's send() blocks.
SockBufFrames == 1
\* Clients that disconnect in a run.
MaxCloses == 1
\* Frames a client has sent that its handleClient thread has not read yet.
MaxUnread == 2
\* The clock of the receiving AudioClient advances in steps of TickMs up to
\* MaxClockMs.
TickMs == 60
MaxClockMs == 240
\* Clients whose audio the server relays to the receiving AudioClient, and
\* the AUDIO_DATA messages they send together in a run.
NumSenders == 2
MaxArrivals == 3
\* Messages a CaptureSink sends in a run.
MaxSent == 2
\* Capacity, in samples, of the playback AudioBuffer.
AbCapacity == 3
\* Samples handed to AudioBuffer::write over a whole run.
AbMaxSamples == 5
\* Most samples one write or one output callback asks for.
AbMaxRequest == 3
\* Messages the server has sent to the AudioClient that it has not read yet.
MaxInbound == 1
\* Messages the socket's send buffer of the AudioClient takes before send() blocks.
SendBuffer == 1
\* Messages of one connection of the AudioClient that are kept for inspection.
MaxWire == 4
\* Connections whose messages handleClientMessage dispatches, records its table
\* holds, and HEARTBEAT echoes written to one socket in a run.
NumDispatched == 2
\* Bytes of one framed message written by sendRawData.
FrameBytes == 2
\* Connections the accept thread takes before and during AudioServer::stop.
NumAccepted == 2
\* RenderSink: maxQueueSize_ in samples, the samples of one queueAudioData call,
\* the size of currentBuffer_, the samples one fillOutputBuffer call asks for,
\* and the evicted samples a run counts.
MaxQueueSize == 4
MaxChunk == 3
SinkBuffer == 2
MaxOutput == 3
MaxDropped == 8
MaxRecords == 3
MaxEchoes == 3

VARIABLES
    \* ---- RenderSource (src/include/RenderSource.h:203-260)
    jitterBuffer_,            \* std::map<uint32_t, ReceivedAudioPacket>
    jitterBufferReady_,
    expectedSequenceNumber_,
    lastProcessedSequence_,
    highestReceivedSequence_,
    adaptiveMinBufferMs_,
    adaptiveMaxBufferMs_,
    targetBufferSizeMs_,
    totalPacketsReceived_,
    totalPacketsLost_,
    totalPacketsDropped_,
    totalPacketsPlayed_,
    totalSilenceInserted_,
    isReceiving_,
    enablePacketLossRecovery, \* config_->enablePacketLossRecovery
    jitterBufferMutex_,       \* "free", or the thread that holds it for good
    workerPacket,             \* jitterBufferWorker: packet erased, not yet rendered
    processSeq,               \* RenderSourceProcess: loop variable seq, or NoSeq
    rsArrived,                \* history: sequences handed to processReceivedPacket
    rsRendered,               \* history: packets emitted by the two drains
    \* ---- JitterBuffer (src/include/JitterBuffer.h:33-39)
    buffer_,                  \* std::priority_queue<AudioPacket>, as a bag
    seenSequences_,
    lastSequenceNumber_,
    maxBufferSize_,
    minBufferSize_,
    jbArrived,                \* history: sequences handed to addPacket
    jbRendered,               \* history: packets returned by getPacket
    \* ---- the two codecs applied to one drawn input
    msgIn,                    \* class Message (src/include/Message.h:25-60)
    msgBuffer,                \* Message::serialize() result
    msgOut,                   \* Message::deserialize() result
    nmIn,                     \* struct Message (src/include/NetworkManager.h:36-43)
    nmBuffer,                 \* NetworkManager::serializeMessage() buffer
    nmOut,                    \* NetworkManager::deserializeMessage() result
    \* ---- the receive paths applied to one byte stream
    rxIn,                     \* the header fields and payload the peer wrote
    rxStream,                 \* the bytes on the socket, not yet read
    rxEof,                    \* the peer closed the socket after them
    rxOut,                    \* per receive path: what the call came to
    \* ---- AudioBuffer (src/include/AudioBuffer.h:25-33) under playCallback
    ab_buffer_,               \* AudioBuffer::buffer_
    read_pos,
    write_pos,
    size_,
    abNext,                   \* samples handed to write so far (the last sample's value)
    abFifo,                   \* history: samples written and not yet read, oldest first
    abOutput,                 \* the output buffer after the last playCallback
    abHeld,                   \* history: abFifo when that callback began
    abPlayed,                 \* history: samples the callbacks before it put out
    abWrote,                  \* history: the last write, the space it found, its result
    \* ---- one AudioClient (src/include/AudioClient.h:46-66) with its
    \* AudioProcessor and NetworkManager
    connected_,
    isAudioActive,            \* AudioClient::audio_active_
    running_,
    jitterBufferRunning_,
    network_thread_,          \* "none", or where networkLoop is: "top", "recv", "exited"
    jitterBufferThread_,      \* "none", or where jitterBufferLoop is: "top", "process", "exited"
    disconnectPc,             \* where the main thread is inside disconnect(), or "idle"
    recording_,               \* AudioProcessor: the capture stream is started
    playing_,                 \* AudioProcessor: the render stream is started
    initialized_,
    playback_buffer_,         \* AudioProcessor: the ring buffer exists
    isConnected_,             \* NetworkManager: the socket is open
    inbound,                  \* messages from the server waiting on the socket
    serverClosed,             \* the server has closed its end
    \* ---- the same AudioClient with its PortAudio callbacks and its socket
    clientWire,               \* messages written on the current connection, oldest first
    sendRoom,                 \* room left in the socket's send buffer, in messages
    mainPc,                   \* where the main thread is inside startAudio(), or "idle"
    capturePc,                \* recordCallback: "idle", or "send" inside sendMessage
    playPc,                   \* playCallback: "idle", "lock" at the lock_guard, "read"
    bufferMutex,              \* AudioBuffer::mutex_: "free" or the thread that holds it
    captureSkipped,           \* history: a capture callback returned at the gate
    ioFailed,                 \* history: a recv() or a send() failed on this connection
    \* ---- AudioServer::handleClientMessage on the table of client records
    clientRecords,            \* AudioServer::clients_ with the config fields
    established,              \* sockets with a running handleClient thread
    lastConfig,               \* history: the last CLIENT_CONFIG handled, whether it changed the table
    lastWrites,               \* history: per socket, sendMessage calls of the last broadcast
    hbInitiated,              \* history: per socket, heartbeats the client began
    hbEchoes,                 \* history: per socket, echoes the server wrote to it
    hbToServer,               \* per socket: HEARTBEAT messages on their way to the server
    hbToClient,               \* per socket: HEARTBEAT messages on their way to the client
    \* ---- AudioClient::stopAudio against processJitterBuffer
    stopPc,                   \* where the main thread is inside stopAudio(), or "idle"
    bufferPointer,            \* the playback_buffer_ the jitter thread read: "none", "live", "deleted"
    wroteFreed,               \* history: AudioBuffer::write ran on a deleted buffer
    \* ---- threads inside NetworkManager::sendRawData
    writerPc,                 \* per writing thread: "idle", "send" inside sendRawData, "done"
    totalSent,                \* per writing thread: sendRawData's totalSent
    socketBytes,              \* per socket: the bytes written, each named by its writer
    tableMutex,               \* AudioServer::clients_mutex_: "free" or the thread holding it
    \* ---- RenderSource::resetJitterBuffer against the other methods
    sinceReset,               \* reset returned, nothing inserted since
    \* ---- AudioServer::stop against the threads of NetworkManager
    serverRunning,            \* NetworkManager::running_ of the server
    serverSocket_,            \* "open" or "closed"
    serverStopPc,             \* the thread in AudioServer::stop: its position
    serverLoopPc,             \* the accept thread (NetworkManager::serverLoop): its position
    acceptedSocket,           \* serverLoop's local clientSocket
    handleClientPc,           \* per socket: position of its detached handleClient thread
    activeSockets,            \* NetworkManager::connectedClients_
    serverTable,              \* AudioServer::clients_: the sockets that have a record
    closeCount,               \* per descriptor: closesocket() calls made on it
    lateTouch,                \* history: a handler dispatched after stop had returned
    \* ---- RenderSink (src/include/RenderSink.h:225-250)
    audioQueue_,              \* std::queue<PlaybackAudioData>: the sample count of each element
    queueSize_,
    totalDroppedSamples_,
    currentBufferPosition_,
    evictedSamples,           \* history: samples of the elements queueAudioData popped
    frontOfEmpty,             \* history: front() was read on the empty queue
    lastCall,                 \* history: the last call on the main thread and its result
    \* ---- RenderSource::adaptiveBufferManagement
    averageJitter_,           \* the average jitter (ms) the last adaptation step loaded
    adaptedFrom,              \* history: targetBufferSizeMs_ before that step, or NoSeq
    \* ---- the receiving side of AudioClient (src/include/AudioClient.h:53-68)
    incomingSequenceNumber_,
    clientJitterReady,        \* AudioClient::jitterBufferReady_
    lastPacketTime_,
    clock,                    \* steady_clock::now(), ms since the construction
    currentBufferSize,        \* processJitterBuffer: the size read at its start
    packetsToProcess,         \* processJitterBuffer: iterations of its loop left
    senderNext,               \* per sender: AUDIO_DATA messages it has sent so far
    inserted,                 \* history: sender, sender's count and number of each insert
    firstInsertTime,          \* history: clock when the store last became non-empty
    readyFlip,                \* history: the last change of the ready flag to true
    underrunSeen,             \* history: the ready flag was cleared on an underrun
    \* ---- CaptureSink (src/include/CaptureSink.h:171-176)
    sequenceNumber_,
    totalPacketsSent_,
    csWire,                   \* history: the frames written to the socket, in order
    \* ---- the relay, observed at the recipients' sockets
    relayLog,                 \* history: per socket, the frames the server wrote to it
    \* ---- AudioServer / NetworkManager (server side)
    connectedClients_,        \* NetworkManager::connectedClients_
    clients_,                 \* AudioServer::clients_ (vector<ClientInfo>)
    clients_mutex_,           \* 0 when free, else the socket of the holding handler
    acceptSocket,             \* serverLoop: socket accepted, CONNECT not yet notified (0: none)
    handlerPc,                \* handleClient thread of each socket
    handlerFrame,             \* the bytes its receiveMessage read last
    broadcastIdx,             \* broadcastAudioToOthers: position in clients_
    broadcastWrote,           \* history: [to, frame] written by the running broadcast
    broadcastFailed,          \* history: sockets whose send() returned SOCKET_ERROR
    toServer,                 \* per socket: frames sent by the client, not yet read
    toClient,                 \* per socket: frames sent by the server, not yet read
    peerClosed,               \* the client has closed its end
    audio_active_,            \* AudioClient::audio_active_ of each client
    framesSent                \* AUDIO_DATA frames sent by all clients so far

rsVars == <<jitterBuffer_, jitterBufferReady_, expectedSequenceNumber_,
            lastProcessedSequence_, highestReceivedSequence_,
            adaptiveMinBufferMs_, adaptiveMaxBufferMs_, targetBufferSizeMs_,
            totalPacketsReceived_, totalPacketsLost_, totalPacketsDropped_,
            totalPacketsPlayed_, totalSilenceInserted_, isReceiving_,
            enablePacketLossRecovery, jitterBufferMutex_, workerPacket,
            processSeq, rsArrived, rsRendered>>

jbVars == <<buffer_, seenSequences_, lastSequenceNumber_, maxBufferSize_,
            minBufferSize_, jbArrived, jbRendered>>

codecVars == <<msgIn, msgBuffer, msgOut, nmIn, nmBuffer, nmOut>>

rxVars == <<rxIn, rxStream, rxEof, rxOut>>

abVars == <<ab_buffer_, read_pos, write_pos, size_, abNext, abFifo, abOutput,
            abHeld, abPlayed, abWrote>>

acVars == <<connected_, isAudioActive, running_, jitterBufferRunning_,
            network_thread_, jitterBufferThread_, disconnectPc, recording_,
            playing_, initialized_, playback_buffer_, isConnected_, inbound,
            serverClosed, lastCall>>

srvVars == <<connectedClients_, clients_, clients_mutex_, acceptSocket, handlerPc,
             handlerFrame, broadcastIdx, broadcastWrote, broadcastFailed,
             toServer, toClient, peerClosed, audio_active_, framesSent>>

adVars == <<averageJitter_, adaptedFrom>>

relayVars == <<relayLog>>

csVars == <<sequenceNumber_, totalPacketsSent_, csWire>>

cbVars == <<clientWire, sendRoom, mainPc, capturePc, playPc, bufferMutex,
            captureSkipped, ioFailed>>

dpVars == <<clientRecords, established, lastConfig, lastWrites, hbInitiated,
            hbEchoes, hbToServer, hbToClient>>

tdVars == <<stopPc, bufferPointer, wroteFreed>>

wrVars == <<writerPc, totalSent, socketBytes, tableMutex>>

rhVars == <<sinceReset>>

stVars == <<serverRunning, serverSocket_, serverStopPc, serverLoopPc,
            acceptedSocket, handleClientPc, activeSockets, serverTable,
            closeCount, lateTouch>>

rkVars == <<audioQueue_, queueSize_, totalDroppedSamples_, currentBufferPosition_,
            evictedSamples, frontOfEmpty>>

inVars == <<incomingSequenceNumber_, clientJitterReady, lastPacketTime_, clock,
            currentBufferSize, packetsToProcess, senderNext, inserted,
            firstInsertTime, readyFlip, underrunSeen>>

vars == <<rsVars, jbVars, codecVars, srvVars, rxVars, abVars, acVars, adVars, relayVars, csVars, inVars, cbVars, dpVars, tdVars, wrVars, rhVars, stVars, rkVars>>

\* A step of one component leaves the other components' state alone.
RsOnly == UNCHANGED <<jbVars, codecVars, srvVars, rxVars, abVars, acVars, adVars, relayVars, csVars, inVars, cbVars, dpVars, tdVars, wrVars, rhVars, stVars, rkVars>>
JbOnly == UNCHANGED <<rsVars, codecVars, srvVars, rxVars, abVars, acVars, adVars, relayVars, csVars, inVars, cbVars, dpVars, tdVars, wrVars, rhVars, stVars, rkVars>>
CodecOnly == UNCHANGED <<rsVars, jbVars, srvVars, rxVars, abVars, acVars, adVars, relayVars, csVars, inVars, cbVars, dpVars, tdVars, wrVars, rhVars, stVars, rkVars>>
SrvOnly == UNCHANGED <<rsVars, jbVars, codecVars, rxVars, abVars, acVars, adVars, relayVars, csVars, inVars, cbVars, dpVars, tdVars, wrVars, rhVars, stVars, rkVars>>
RxOnly == UNCHANGED <<rsVars, jbVars, codecVars, srvVars, abVars, acVars, adVars, relayVars, csVars, inVars, cbVars, dpVars, tdVars, wrVars, rhVars, stVars, rkVars>>
AbOnly == UNCHANGED <<rsVars, jbVars, codecVars, srvVars, rxVars, acVars, adVars, relayVars, csVars, inVars, cbVars, dpVars, tdVars, wrVars, rhVars, stVars, rkVars>>
AcOnly == UNCHANGED <<rsVars, jbVars, codecVars, srvVars, rxVars, abVars, adVars, relayVars, csVars, inVars, cbVars, dpVars, tdVars, wrVars, rhVars, stVars, rkVars>>
AdOnly == UNCHANGED <<jbVars, codecVars, srvVars, rxVars, abVars, acVars, relayVars, csVars, inVars, cbVars, dpVars, tdVars, wrVars, rhVars, stVars, rkVars>>
RelayOnly == UNCHANGED <<rsVars, jbVars, codecVars, rxVars, abVars, acVars, adVars, csVars, inVars, cbVars, dpVars, tdVars, wrVars, rhVars, stVars, rkVars>>
CsOnly == UNCHANGED <<rsVars, jbVars, codecVars, srvVars, rxVars, abVars, acVars, adVars, relayVars, inVars, cbVars, dpVars, tdVars, wrVars, rhVars, stVars, rkVars>>
InOnly == UNCHANGED <<rsVars, codecVars, srvVars, rxVars, abVars, adVars, relayVars, csVars, cbVars, dpVars, tdVars, wrVars, rhVars, stVars, rkVars>>
CbOnly == UNCHANGED <<rsVars, jbVars, codecVars, srvVars, rxVars, abVars, adVars, relayVars, csVars, inVars, dpVars, tdVars, wrVars, rhVars, stVars, rkVars>>
DpOnly == UNCHANGED <<rsVars, jbVars, codecVars, srvVars, rxVars, abVars, acVars, adVars, relayVars, csVars, inVars, cbVars, tdVars, wrVars, rhVars, stVars, rkVars>>
TdOnly == UNCHANGED <<rsVars, jbVars, codecVars, srvVars, rxVars, abVars, adVars, relayVars, csVars, inVars, cbVars, dpVars, wrVars, rhVars, stVars, rkVars>>
WrOnly == UNCHANGED <<rsVars, jbVars, codecVars, srvVars, rxVars, abVars, acVars, adVars, relayVars, csVars, inVars, cbVars, dpVars, tdVars, rhVars, stVars, rkVars>>
RhOnly == UNCHANGED <<jbVars, codecVars, srvVars, rxVars, abVars, acVars, adVars, relayVars, csVars, inVars, cbVars, dpVars, tdVars, wrVars, stVars, rkVars>>
StOnly == UNCHANGED <<rsVars, jbVars, codecVars, srvVars, rxVars, abVars, acVars, adVars, relayVars, csVars, inVars, cbVars, dpVars, tdVars, wrVars, rhVars, rkVars>>
RkOnly == UNCHANGED <<rsVars, jbVars, codecVars, srvVars, rxVars, abVars, acVars, adVars, relayVars, csVars, inVars, cbVars, dpVars, tdVars, wrVars, rhVars, stVars>>

\* ------------------------------------------------------------ common helpers
Seqs == 0..MaxSeq
NoSeq == 0 - 1
NoPacket == [sequenceNumber |-> NoSeq, audioData |-> "none"]

Min(S) == CHOOSE x \in S : \A y \in S : x <= y
CeilDiv(a, b) == (a + b - 1) \div b

\* The sequence numbers of a history of packets.
SeqNumbers(h) == [i \in 1..Len(h) |-> h[i].sequenceNumber]
StrictlyIncreasing(s) == \A i, j \in 1..Len(s) : i < j => s[i] < s[j]
NoRepeats(s) == \A i, j \in 1..Len(s) : i # j => s[i] # s[j]

\* =================================================================
\* RenderSource
\* =================================================================

\* Jitter buffer limits offered to RenderSourceInit / configureJitterBuffer.
RsConfigs == { [min |-> 0, max |-> 15, target |-> 10],
               [min |-> 10, max |-> 35, target |-> 20] }
RsInitConfig == [min |-> 10, max |-> 35, target |-> 20]

\* RenderSourceConfig::jitterThresholdMs
jitterThresholdMs == 10
\* Average jitter values (ms) on both sides of the threshold and of its half.
JitterLevels == {0, 4, 5, 10, 11, 30}
\* Arguments of configureJitterBuffer in the adaptation runs; the last two are
\* refused.
AdaptConfigs ==
    { [min |-> 0, max |-> 15, target |-> 10],
      [min |-> 10, max |-> 35, target |-> 20],
      [min |-> 20, max |-> 48, target |-> 23],
      [min |-> 20, max |-> 48, target |-> 48],
      [min |-> 10, max |-> 35, target |-> 36],
      [min |-> 20, max |-> 20, target |-> 20] }

RsPacket(seq, data) == [sequenceNumber |-> seq, audioData |-> data]

\* generateSilencePacket: framesPerBuffer_ * channels_ zero samples.
generateSilencePacket(seq) == RsPacket(seq, "zeros")

\* The size-limiting loop of addToJitterBuffer:
\*   while (size * packetIntervalMs_ > adaptiveMaxBufferMs_) erase(begin); dropped++
RECURSIVE LimitBuffer(_, _, _)
LimitBuffer(buf, dropped, maxMs) ==
    IF Cardinality(DOMAIN buf) * PacketIntervalMs > maxMs
    THEN LET oldest == Min(DOMAIN buf)
         IN  LimitBuffer([s \in (DOMAIN buf) \ {oldest} |-> buf[s]],
                         dropped + 1, maxMs)
    ELSE [buf |-> buf, dropped |-> dropped]

\* addToJitterBuffer(packet) applied to a store and a dropped counter.
addToJitterBuffer(buf, dropped, maxMs, packet) ==
    IF packet.sequenceNumber \in DOMAIN buf
    THEN [buf |-> buf, dropped |-> dropped]
    ELSE LimitBuffer([s \in (DOMAIN buf) \cup {packet.sequenceNumber} |->
                         IF s = packet.sequenceNumber THEN packet ELSE buf[s]],
                     dropped, maxMs)

RsInit ==
    /\ jitterBuffer_ = << >>
    /\ jitterBufferReady_ = FALSE
    /\ expectedSequenceNumber_ = 1
    /\ lastProcessedSequence_ = 0
    /\ highestReceivedSequence_ = 0
    /\ adaptiveMinBufferMs_ = RsInitConfig.min
    /\ adaptiveMaxBufferMs_ = RsInitConfig.max
    /\ targetBufferSizeMs_ = RsInitConfig.target
    /\ totalPacketsReceived_ = 0
    /\ totalPacketsLost_ = 0
    /\ totalPacketsDropped_ = 0
    /\ totalPacketsPlayed_ = 0
    /\ totalSilenceInserted_ = 0
    /\ isReceiving_ = FALSE
    /\ enablePacketLossRecovery \in BOOLEAN
    /\ jitterBufferMutex_ = "free"
    /\ workerPacket = NoPacket
    /\ processSeq = NoSeq
    /\ rsArrived = << >>
    /\ rsRendered = << >>

\* addReceivedPacket -> validatePacket -> processReceivedPacket -> addToJitterBuffer.
\* dataOk is validatePacket's verdict (non-empty payload, matching format).
addReceivedPacket(seq, dataOk) ==
    /\ totalPacketsReceived_ + totalPacketsDropped_ < MaxPackets
    /\ jitterBufferMutex_ = "free"
    /\ IF ~dataOk
       THEN /\ totalPacketsDropped_' = totalPacketsDropped_ + 1
            /\ UNCHANGED <<jitterBuffer_, totalPacketsReceived_,
                           highestReceivedSequence_, rsArrived>>
       ELSE LET r == addToJitterBuffer(jitterBuffer_, totalPacketsDropped_,
                                       adaptiveMaxBufferMs_, RsPacket(seq, "pcm"))
            IN  /\ totalPacketsReceived_' = totalPacketsReceived_ + 1
                /\ highestReceivedSequence_' =
                       IF seq > highestReceivedSequence_ THEN seq
                       ELSE highestReceivedSequence_
                /\ jitterBuffer_' = r.buf
                /\ totalPacketsDropped_' = r.dropped
                /\ rsArrived' = Append(rsArrived, seq)
    /\ UNCHANGED <<jitterBufferReady_, expectedSequenceNumber_,
                   lastProcessedSequence_, adaptiveMinBufferMs_,
                   adaptiveMaxBufferMs_, targetBufferSizeMs_, totalPacketsLost_,
                   totalPacketsPlayed_, totalSilenceInserted_, isReceiving_,
                   enablePacketLossRecovery, jitterBufferMutex_, workerPacket,
                   processSeq, rsRendered>>

\* getAudioData -> getFromJitterBuffer: emits the expected packet if resident.
getAudioData ==
    /\ jitterBufferMutex_ = "free"
    /\ IF jitterBufferReady_ /\ expectedSequenceNumber_ \in DOMAIN jitterBuffer_
       THEN /\ rsRendered' = Append(rsRendered, jitterBuffer_[expectedSequenceNumber_])
            /\ jitterBuffer_' = [s \in (DOMAIN jitterBuffer_) \ {expectedSequenceNumber_}
                                    |-> jitterBuffer_[s]]
            /\ expectedSequenceNumber_' = expectedSequenceNumber_ + 1
            /\ totalPacketsPlayed_' = totalPacketsPlayed_ + 1
       ELSE UNCHANGED <<rsRendered, jitterBuffer_, expectedSequenceNumber_,
                        totalPacketsPlayed_>>
    /\ UNCHANGED <<jitterBufferReady_, lastProcessedSequence_,
                   highestReceivedSequence_, adaptiveMinBufferMs_,
                   adaptiveMaxBufferMs_, targetBufferSizeMs_,
                   totalPacketsReceived_, totalPacketsLost_,
                   totalPacketsDropped_, totalSilenceInserted_, isReceiving_,
                   enablePacketLossRecovery, jitterBufferMutex_, workerPacket,
                   processSeq, rsArrived>>

\* jitterBufferWorker, the part under the lock: wait for a non-empty store, mark
\* the buffer ready, and erase the expected packet if it is resident.
jitterBufferWorkerTake ==
    /\ jitterBufferMutex_ = "free"
    /\ workerPacket = NoPacket
    /\ jitterBuffer_ # << >>
    /\ jitterBufferReady_' = TRUE
    /\ IF expectedSequenceNumber_ \in DOMAIN jitterBuffer_
       THEN /\ workerPacket' = jitterBuffer_[expectedSequenceNumber_]
            /\ jitterBuffer_' = [s \in (DOMAIN jitterBuffer_) \ {expectedSequenceNumber_}
                                    |-> jitterBuffer_[s]]
       ELSE UNCHANGED <<workerPacket, jitterBuffer_>>
    /\ UNCHANGED <<expectedSequenceNumber_, lastProcessedSequence_,
                   highestReceivedSequence_, adaptiveMinBufferMs_,
                   adaptiveMaxBufferMs_, targetBufferSizeMs_,
                   totalPacketsReceived_, totalPacketsLost_,
                   totalPacketsDropped_, totalPacketsPlayed_,
                   totalSilenceInserted_, isReceiving_, enablePacketLossRecovery,
                   jitterBufferMutex_, processSeq, rsArrived, rsRendered>>

\* jitterBufferWorker, after the unlock: render callback, expected++, lastProcessed.
jitterBufferWorkerRender ==
    /\ workerPacket # NoPacket
    /\ rsRendered' = Append(rsRendered, workerPacket)
    /\ expectedSequenceNumber_' = expectedSequenceNumber_ + 1
    /\ lastProcessedSequence_' = workerPacket.sequenceNumber
    /\ workerPacket' = NoPacket
    /\ UNCHANGED <<jitterBuffer_, jitterBufferReady_, highestReceivedSequence_,
                   adaptiveMinBufferMs_, adaptiveMaxBufferMs_,
                   targetBufferSizeMs_, totalPacketsReceived_,
                   totalPacketsLost_, totalPacketsDropped_, totalPacketsPlayed_,
                   totalSilenceInserted_, isReceiving_, enablePacketLossRecovery,
                   jitterBufferMutex_, processSeq, rsArrived>>

\* resetJitterBuffer: clear the store, ready = false, expected = 1.
\* The two histories start over with the new session.
resetJitterBuffer ==
    /\ jitterBufferMutex_ = "free"
    /\ jitterBuffer_' = << >>
    /\ jitterBufferReady_' = FALSE
    /\ expectedSequenceNumber_' = 1
    /\ lastProcessedSequence_' = 0
    /\ highestReceivedSequence_' = 0
    /\ rsArrived' = << >>
    /\ rsRendered' = << >>
    /\ UNCHANGED <<adaptiveMinBufferMs_, adaptiveMaxBufferMs_,
                   targetBufferSizeMs_, totalPacketsReceived_,
                   totalPacketsLost_, totalPacketsDropped_, totalPacketsPlayed_,
                   totalSilenceInserted_, enablePacketLossRecovery,
                   jitterBufferMutex_, workerPacket, processSeq>>

\* startReceiving: connect, isReceiving_ = true, resetJitterBuffer().
startReceiving ==
    /\ ~isReceiving_
    /\ isReceiving_' = TRUE
    /\ resetJitterBuffer

\* stopReceiving: close the socket, isReceiving_ = false, ready = false.
stopReceiving ==
    /\ isReceiving_
    /\ isReceiving_' = FALSE
    /\ jitterBufferReady_' = FALSE
    /\ UNCHANGED <<jitterBuffer_, expectedSequenceNumber_,
                   lastProcessedSequence_, highestReceivedSequence_,
                   adaptiveMinBufferMs_, adaptiveMaxBufferMs_,
                   targetBufferSizeMs_, totalPacketsReceived_,
                   totalPacketsLost_, totalPacketsDropped_, totalPacketsPlayed_,
                   totalSilenceInserted_, enablePacketLossRecovery,
                   jitterBufferMutex_, workerPacket, processSeq, rsArrived,
                   rsRendered>>

\* configureJitterBuffer(min, max, target): stores the three limits; the store
\* itself is not touched.
configureJitterBuffer(cfg) ==
    /\ cfg.min >= 0 /\ cfg.max > cfg.min
    /\ cfg.target >= cfg.min /\ cfg.target <= cfg.max
    /\ adaptiveMinBufferMs_' = cfg.min
    /\ adaptiveMaxBufferMs_' = cfg.max
    /\ targetBufferSizeMs_' = cfg.target
    /\ UNCHANGED <<jitterBuffer_, jitterBufferReady_, expectedSequenceNumber_,
                   lastProcessedSequence_, highestReceivedSequence_,
                   totalPacketsReceived_, totalPacketsLost_,
                   totalPacketsDropped_, totalPacketsPlayed_,
                   totalSilenceInserted_, isReceiving_, enablePacketLossRecovery,
                   jitterBufferMutex_, workerPacket, processSeq, rsArrived,
                   rsRendered>>

\* adaptiveBufferManagement without the cap at adaptiveMaxBufferMs_.
AdaptedTargetUncapped(target, minMs, maxMs, jitter) ==
    IF jitter > jitterThresholdMs
    THEN target + 10
    ELSE IF 2 * jitter < jitterThresholdMs
         THEN (IF target - 5 > minMs THEN target - 5 ELSE minMs)
         ELSE target

\* The newTargetSize of adaptiveBufferManagement for a loaded average jitter:
\* std::min(target + 10, max) above the threshold, std::max(target - 5, min)
\* below threshold / 2.0, else target.
AdaptedTarget(target, minMs, maxMs, jitter) ==
    IF jitter > jitterThresholdMs
    THEN (IF target + 10 < maxMs THEN target + 10 ELSE maxMs)
    ELSE IF 2 * jitter < jitterThresholdMs
         THEN (IF target - 5 > minMs THEN target - 5 ELSE minMs)
         ELSE target

AdIdle == averageJitter_ = 0 /\ adaptedFrom = NoSeq

\* adaptJitterBuffer() -> adaptiveBufferManagement() with averageJitter_ = jitter.
adaptiveBufferManagement(jitter) ==
    /\ averageJitter_' = jitter
    /\ adaptedFrom' = targetBufferSizeMs_
    /\ targetBufferSizeMs_' = AdaptedTarget(targetBufferSizeMs_, adaptiveMinBufferMs_,
                                            adaptiveMaxBufferMs_, jitter)
    /\ UNCHANGED <<jitterBuffer_, jitterBufferReady_, expectedSequenceNumber_,
                   lastProcessedSequence_, highestReceivedSequence_,
                   adaptiveMinBufferMs_, adaptiveMaxBufferMs_,
                   totalPacketsReceived_, totalPacketsLost_,
                   totalPacketsDropped_, totalPacketsPlayed_,
                   totalSilenceInserted_, isReceiving_, enablePacketLossRecovery,
                   jitterBufferMutex_, workerPacket, processSeq, rsArrived,
                   rsRendered>>

\* RenderSourceProcess, entry of the missing-packet scan. lastPacketArrivalTime_
\* is never written after construction (0), so the timeout test
\* currentTime - lastPacketArrivalTime_ > packetTimeoutMs always passes.
RenderSourceProcessBegin ==
    /\ processSeq = NoSeq
    /\ isReceiving_
    /\ expectedSequenceNumber_ <= highestReceivedSequence_
    /\ processSeq' = expectedSequenceNumber_
    /\ UNCHANGED <<jitterBuffer_, jitterBufferReady_, expectedSequenceNumber_,
                   lastProcessedSequence_, highestReceivedSequence_,
                   adaptiveMinBufferMs_, adaptiveMaxBufferMs_,
                   targetBufferSizeMs_, totalPacketsReceived_,
                   totalPacketsLost_, totalPacketsDropped_, totalPacketsPlayed_,
                   totalSilenceInserted_, isReceiving_, enablePacketLossRecovery,
                   jitterBufferMutex_, workerPacket, rsArrived, rsRendered>>

\* One iteration of the scan: lock_guard(jitterBufferMutex_), and for a missing
\* seq handlePacketLoss(seq) -> addToJitterBuffer, which locks the same
\* non-recursive std::mutex again on the same thread. That is undefined
\* behaviour: the thread either blocks for good holding the mutex (relock =
\* "deadlock") or the second lock is granted (relock = "granted").
RenderSourceProcessScan(relock) ==
    /\ processSeq # NoSeq
    /\ jitterBufferMutex_ = "free"
    /\ IF processSeq > highestReceivedSequence_
       THEN /\ processSeq' = NoSeq
            /\ UNCHANGED <<jitterBuffer_, totalPacketsDropped_,
                           totalSilenceInserted_, totalPacketsLost_,
                           jitterBufferMutex_>>
       ELSE IF processSeq \in DOMAIN jitterBuffer_ \/ ~enablePacketLossRecovery
       THEN /\ processSeq' = processSeq + 1
            /\ UNCHANGED <<jitterBuffer_, totalPacketsDropped_,
                           totalSilenceInserted_, totalPacketsLost_,
                           jitterBufferMutex_>>
       ELSE IF relock = "deadlock"
       THEN /\ jitterBufferMutex_' = "RenderSourceProcess"
            /\ UNCHANGED <<processSeq, jitterBuffer_, totalPacketsDropped_,
                           totalSilenceInserted_, totalPacketsLost_>>
       ELSE LET r == addToJitterBuffer(jitterBuffer_, totalPacketsDropped_,
                                       adaptiveMaxBufferMs_,
                                       generateSilencePacket(processSeq))
            IN  /\ totalPacketsLost_ < MaxLost
                /\ jitterBuffer_' = r.buf
                /\ totalPacketsDropped_' = r.dropped
                /\ totalSilenceInserted_' = totalSilenceInserted_ + 1
                /\ totalPacketsLost_' = totalPacketsLost_ + 1
                /\ processSeq' = processSeq + 1
                /\ UNCHANGED jitterBufferMutex_
    /\ UNCHANGED <<jitterBufferReady_, expectedSequenceNumber_,
                   lastProcessedSequence_, highestReceivedSequence_,
                   adaptiveMinBufferMs_, adaptiveMaxBufferMs_,
                   targetBufferSizeMs_, totalPacketsReceived_,
                   totalPacketsPlayed_, isReceiving_, enablePacketLossRecovery,
                   workerPacket, rsArrived, rsRendered>>

\* =================================================================
\* JitterBuffer
\* =================================================================

\* Gaps of at most this many packets are filled with silence (addPacket).
MaxGapFill == 3

JbSeqs == 0..JbMaxSeq
JbPacket(seq, data) == [sequenceNumber |-> seq, data |-> data]
JbPackets == [sequenceNumber : JbSeqs, data : {"pcm", "zeros"}]
EmptyBag == [p \in JbPackets |-> 0]

RECURSIVE BagSum(_, _)
BagSum(b, S) ==
    IF S = {} THEN 0
    ELSE LET p == CHOOSE q \in S : TRUE
         IN  b[p] + BagSum(b, S \ {p})
BagSize(b) == BagSum(b, JbPackets)
BagPush(b, p) == [q \in JbPackets |-> IF q = p THEN b[q] + 1 ELSE b[q]]
BagPop(b, p) == [q \in JbPackets |-> IF q = p THEN b[q] - 1 ELSE b[q]]

\* priority_queue::top(): operator< orders by sequenceNumber alone, so any
\* resident packet with the lowest sequence number may be on top.
Tops(b) ==
    { p \in JbPackets :
        /\ b[p] > 0
        /\ \A q \in JbPackets : b[q] > 0 => p.sequenceNumber <= q.sequenceNumber }

\* The gap fill of addPacket: with a non-empty queue and a gap of at most
\* MaxGapFill after lastSequenceNumber_, one silence packet per missing sequence.
GapFill(b, last, seq) ==
    IF BagSize(b) > 0 /\ seq > last + 1 /\ seq - (last + 1) <= MaxGapFill
    THEN [pkt \in JbPackets |->
            IF pkt.data = "zeros" /\ pkt.sequenceNumber >= last + 1
                                  /\ pkt.sequenceNumber < seq
            THEN b[pkt] + 1 ELSE b[pkt]]
    ELSE b

\* while (buffer_.size() >= limit) { pop top; seenSequences_.erase(top.seq) }:
\* every result the loop can end in.
RECURSIVE DropOldest(_, _, _)
DropOldest(queue, seen, limit) ==
    IF BagSize(queue) >= limit /\ BagSize(queue) > 0
    THEN UNION { DropOldest(BagPop(queue, oldest),
                            seen \ {oldest.sequenceNumber}, limit) :
                 oldest \in Tops(queue) }
    ELSE { [buf |-> queue, seen |-> seen] }

JbInit ==
    /\ buffer_ = EmptyBag
    /\ seenSequences_ = {}
    /\ lastSequenceNumber_ = 0
    /\ maxBufferSize_ = JbMaxCapacity
    /\ minBufferSize_ = 2
    /\ jbArrived = << >>
    /\ jbRendered = << >>

\* JitterBuffer::addPacket
addPacket(seq) ==
    /\ Len(jbArrived) < JbMaxPackets
    /\ \E r \in DropOldest(GapFill(buffer_, lastSequenceNumber_, seq),
                           seenSequences_, maxBufferSize_) :
          /\ buffer_' = BagPush(r.buf, JbPacket(seq, "pcm"))
          /\ seenSequences_' = r.seen \cup {seq}
    /\ lastSequenceNumber_' = seq
    /\ jbArrived' = Append(jbArrived, seq)
    /\ UNCHANGED <<maxBufferSize_, minBufferSize_, jbRendered>>

\* JitterBuffer::getPacket
getPacket ==
    /\ IF BagSize(buffer_) = 0
       THEN UNCHANGED <<buffer_, seenSequences_, jbRendered>>
       ELSE \E p \in Tops(buffer_) :
               /\ buffer_' = BagPop(buffer_, p)
               /\ seenSequences_' = seenSequences_ \ {p.sequenceNumber}
               /\ jbRendered' = Append(jbRendered, p)
    /\ UNCHANGED <<lastSequenceNumber_, maxBufferSize_, minBufferSize_, jbArrived>>

\* JitterBuffer::clear (lastSequenceNumber_ is kept). The histories start over.
clear ==
    /\ buffer_' = EmptyBag
    /\ seenSequences_' = {}
    /\ jbArrived' = << >>
    /\ jbRendered' = << >>
    /\ UNCHANGED <<lastSequenceNumber_, maxBufferSize_, minBufferSize_>>

\* JitterBuffer::setMaxBufferSize: store the limit and trim down to it.
setMaxBufferSize(size) ==
    /\ maxBufferSize_' = size
    /\ \E r \in DropOldest(buffer_, seenSequences_, size + 1) :
          /\ buffer_' = r.buf
          /\ seenSequences_' = r.seen
    /\ UNCHANGED <<lastSequenceNumber_, minBufferSize_, jbArrived, jbRendered>>

\* JitterBuffer::setMinBufferSize
setMinBufferSize(minSize) ==
    /\ minBufferSize_' = minSize
    /\ UNCHANGED <<buffer_, seenSequences_, lastSequenceNumber_, maxBufferSize_,
                   jbArrived, jbRendered>>

\* JitterBuffer::isReady
isReady == BagSize(buffer_) >= minBufferSize_

\* =================================================================
\* Wire codecs
\* =================================================================

Bytes == 0..255
\* n bytes of v, least significant first (memcpy of a native integer).
RECURSIVE LE(_, _)
LE(v, n) == IF n = 0 THEN << >> ELSE <<v % 256>> \o LE(v \div 256, n - 1)
RECURSIVE FromLE(_)
FromLE(b) == IF Len(b) = 0 THEN 0 ELSE b[1] + 256 * FromLE(Tail(b))

NoBuffer == <<"none">>
\* What a decoder returns when it rejects its input.
DecodeFailed == [ok |-> FALSE, decoded |-> "none"]
\* No decoder has run yet.
NoResult == [ok |-> FALSE, decoded |-> "pending"]

\* ---- class Message: 24-byte MessageHeader {magic, type (uint16), 2 padding
\* bytes, length, sequence, timestamp} followed by the payload.
MessageMagic == 1096107091
SizeofMessageHeader == 24
MsgTypes == 1..4

\* Message(type, data, size) + setSequence + setTimestamp; updateLength().
MessageOf(type, data, sequence, timestamp) ==
    [magic |-> MessageMagic, type |-> type,
     length |-> SizeofMessageHeader + Len(data),
     sequence |-> sequence, timestamp |-> timestamp, data |-> data]

\* Message::serialize. The struct's padding bytes are copied as they are in
\* memory: pad is what they happen to hold.
serialize(m, pad) ==
    LE(m.magic, 4) \o LE(m.type, 2) \o pad \o LE(m.length, 4)
        \o LE(m.sequence, 4) \o LE(m.timestamp, 8) \o m.data

\* Message::deserialize with a header laid out without padding (22 bytes).
deserializePacked(buffer) ==
    IF Len(buffer) < 22 THEN DecodeFailed
    ELSE LET magic == FromLE(SubSeq(buffer, 1, 4))
             length == FromLE(SubSeq(buffer, 7, 10))
         IN  IF magic # MessageMagic THEN DecodeFailed
             ELSE IF length < 22 \/ length > Len(buffer) THEN DecodeFailed
             ELSE [ok |-> TRUE,
                   decoded |->
                     [magic |-> magic,
                      type |-> FromLE(SubSeq(buffer, 5, 6)),
                      length |-> length,
                      sequence |-> FromLE(SubSeq(buffer, 11, 14)),
                      timestamp |-> FromLE(SubSeq(buffer, 15, 22)),
                      data |-> SubSeq(buffer, 23, length)]]

\* Message::deserialize
deserialize(buffer) ==
    IF Len(buffer) < SizeofMessageHeader THEN DecodeFailed
    ELSE LET magic == FromLE(SubSeq(buffer, 1, 4))
             length == FromLE(SubSeq(buffer, 9, 12))
         IN  IF magic # MessageMagic THEN DecodeFailed
             ELSE IF length < SizeofMessageHeader \/ length > Len(buffer)
                  THEN DecodeFailed
             ELSE [ok |-> TRUE,
                   decoded |->
                     [magic |-> magic,
                      type |-> FromLE(SubSeq(buffer, 5, 6)),
                      length |-> length,
                      sequence |-> FromLE(SubSeq(buffer, 13, 16)),
                      timestamp |-> FromLE(SubSeq(buffer, 17, 24)),
                      data |-> SubSeq(buffer, SizeofMessageHeader + 1, length)]]

\* ---- NetworkManager: type, size (uint32 each), timestamp (uint64), payload.
NmHeaderSize == 16
CONNECT == 1
DISCONNECT == 2
AUDIO_DATA == 3
CLIENT_CONFIG == 4
CLIENT_READY == 5
HEARTBEAT == 6
NmTypes == CONNECT..HEARTBEAT

NmMessage(type, timestamp, data) ==
    [type |-> type, size |-> Len(data), timestamp |-> timestamp, data |-> data]

\* NetworkManager::serializeMessage
serializeMessage(message) ==
    LE(message.type, 4) \o LE(message.size, 4) \o LE(message.timestamp, 8)
        \o (IF message.size > 0 THEN SubSeq(message.data, 1, message.size)
            ELSE << >>)

\* NetworkManager::deserializeMessage
deserializeMessage(buffer) ==
    IF Len(buffer) < NmHeaderSize THEN DecodeFailed
    ELSE LET size == FromLE(SubSeq(buffer, 5, 8))
             header == [type |-> FromLE(SubSeq(buffer, 1, 4)),
                        size |-> size,
                        timestamp |-> FromLE(SubSeq(buffer, 9, 16))]
         IN  IF size > 0
             THEN IF Len(buffer) < NmHeaderSize + size THEN DecodeFailed
                  ELSE [ok |-> TRUE,
                        decoded |->
                          [type |-> header.type, size |-> size,
                           timestamp |-> header.timestamp,
                           data |-> SubSeq(buffer, NmHeaderSize + 1,
                                           NmHeaderSize + size)]]
             ELSE [ok |-> TRUE,
                   decoded |-> [type |-> header.type, size |-> size,
                                timestamp |-> header.timestamp, data |-> << >>]]

\* ---- inputs
PayloadBytes == {0, 7, 255}
Payloads == UNION { [1..n -> PayloadBytes] : n \in 0..MaxPayloadLen }
Timestamps == {0, 16909060}
Sequences == {0, 168496141}
Paddings == { <<0, 0>>, <<204, 205>> }

CodecIdle ==
    /\ msgIn = MessageOf(1, << >>, 0, 0)
    /\ nmIn = NmMessage(CONNECT, 0, << >>)
    /\ msgBuffer = NoBuffer /\ msgOut = NoResult
    /\ nmBuffer = NoBuffer /\ nmOut = NoResult

CodecInit ==
    /\ \E data \in Payloads, timestamp \in Timestamps :
          /\ \E type \in MsgTypes, sequence \in Sequences :
                msgIn = MessageOf(type, data, sequence, timestamp)
          /\ \E type \in NmTypes : nmIn = NmMessage(type, timestamp, data)
    /\ msgBuffer = NoBuffer /\ msgOut = NoResult
    /\ nmBuffer = NoBuffer /\ nmOut = NoResult

MessageSerialize ==
    /\ msgBuffer = NoBuffer
    /\ \E pad \in Paddings : msgBuffer' = serialize(msgIn, pad)
    /\ UNCHANGED <<msgIn, msgOut, nmIn, nmBuffer, nmOut>>

MessageDeserialize ==
    /\ msgBuffer # NoBuffer
    /\ msgOut = NoResult
    /\ msgOut' = deserialize(msgBuffer)
    /\ UNCHANGED <<msgIn, msgBuffer, nmIn, nmBuffer, nmOut>>

NmSerialize ==
    /\ nmBuffer = NoBuffer
    /\ nmBuffer' = serializeMessage(nmIn)
    /\ UNCHANGED <<msgIn, msgBuffer, msgOut, nmIn, nmOut>>

NmDeserialize ==
    /\ nmBuffer # NoBuffer
    /\ nmOut = NoResult
    /\ nmOut' = deserializeMessage(nmBuffer)
    /\ UNCHANGED <<msgIn, msgBuffer, msgOut, nmIn, nmBuffer>>

\* =================================================================
\* Receive paths: Message::deserialize, RenderSource::receiveMessage,
\* NetworkManager::receiveMessage
\* =================================================================

\* A uint32 as two 16-bit halves, for values past the model checker's integers.
U32Of(n) == [hi |-> n \div 65536, lo |-> n % 65536]
\* uint32_t a - n, wrapping modulo 2^32 (a an integer below 2^31, n <= 65536).
U32Sub(a, n) ==
    IF a >= n THEN U32Of(a - n)
    ELSE [hi |-> 65535, lo |-> 65536 - (n - a)]

RxPaths == {"Message::deserialize", "RenderSource::receiveMessage",
            "NetworkManager::receiveMessage"}
RxPending == [status |-> "pending", allocated |-> U32Of(0)]
RxResult(status, allocated) == [status |-> status, allocated |-> allocated]

\* A recv() loop asking for more bytes than the socket holds: it fails once
\* the peer has closed, and it waits while the peer has not.
RxShortRead(eof, allocated) ==
    RxResult(IF eof THEN "rejected" ELSE "blocked", allocated)

\* RenderSource::receiveMessage on a readable socket: 24 header bytes, the
\* magic test, then header.length - sizeof(MessageHeader) payload bytes into a
\* std::vector of that size. An allocation of 1 GiB and more can fail with
\* std::bad_alloc: alloc is whether the vector can be had.
RxRenderSource(stream, eof, alloc) ==
    IF Len(stream) < SizeofMessageHeader THEN RxShortRead(eof, U32Of(0))
    ELSE LET magic == FromLE(SubSeq(stream, 1, 4))
             length == FromLE(SubSeq(stream, 9, 12))
             dataSize == U32Sub(length, SizeofMessageHeader)
             rest == Len(stream) - SizeofMessageHeader
         IN  IF magic # MessageMagic THEN RxResult("rejected", U32Of(0))
             ELSE IF dataSize = U32Of(0) THEN RxResult("accepted", U32Of(0))
             ELSE IF ~alloc /\ dataSize.hi >= 16384
                  THEN RxResult("bad_alloc", U32Of(0))
             ELSE IF dataSize.hi = 0 /\ dataSize.lo <= rest
                  THEN RxResult("accepted", dataSize)
             ELSE RxShortRead(eof, dataSize)

\* NetworkManager::receiveMessage(message, socket): 16 header bytes (type,
\* size, timestamp), then message.data.resize(size) and size payload bytes.
RxNetworkManager(stream, eof, alloc) ==
    IF Len(stream) < NmHeaderSize THEN RxShortRead(eof, U32Of(0))
    ELSE LET size == FromLE(SubSeq(stream, 5, 8))
             rest == Len(stream) - NmHeaderSize
         IN  IF size = 0 THEN RxResult("accepted", U32Of(0))
             ELSE IF ~alloc /\ U32Of(size).hi >= 16384
                  THEN RxResult("bad_alloc", U32Of(0))
             ELSE IF size <= rest THEN RxResult("accepted", U32Of(size))
             ELSE RxShortRead(eof, U32Of(size))

\* What a peer writes: the header fields and the payload bytes that follow.
RxInput(format, magic, type, length, data) ==
    [format |-> format, magic |-> magic, type |-> type, length |-> length,
     data |-> data]
\* The bytes of an input: a 24-byte MessageHeader frame, or a 16-byte
\* NetworkManager frame.
RxBytes(in) ==
    IF in.format = "Message"
    THEN serialize([magic |-> in.magic, type |-> in.type, length |-> in.length,
                    sequence |-> 0, timestamp |-> 0, data |-> in.data], <<0, 0>>)
    ELSE LE(in.type, 4) \o LE(in.length, 4) \o LE(0, 8) \o in.data

RxIdle ==
    /\ rxIn = RxInput("Message", MessageMagic, 1, SizeofMessageHeader, << >>)
    /\ rxStream = << >>
    /\ rxEof = FALSE
    /\ rxOut = [p \in RxPaths |-> RxPending]

RxInit ==
    /\ LET huge == (32767 * 65536) + 65535
       IN  \/ \E magic \in {MessageMagic, MessageMagic + 1}, type \in {1, 2},
                 length \in {0, SizeofMessageHeader - 1, SizeofMessageHeader,
                             SizeofMessageHeader + MaxPayloadLen, huge},
                 data \in Payloads :
                 rxIn = RxInput("Message", magic, type, length, data)
           \/ \E type \in {AUDIO_DATA, HEARTBEAT},
                 size \in {0, MaxPayloadLen, huge}, data \in Payloads :
                 rxIn = RxInput("Nm", 0, type, size, data)
    /\ rxStream = RxBytes(rxIn)
    /\ rxEof \in BOOLEAN
    /\ rxOut = [p \in RxPaths |-> RxPending]

\* Message::deserialize(buffer, bufferSize) on the bytes received so far.
MessageDeserializeCall ==
    /\ rxOut["Message::deserialize"] = RxPending
    /\ LET out == deserialize(rxStream)
       IN  rxOut' = [rxOut EXCEPT !["Message::deserialize"] =
               IF out.ok THEN RxResult("accepted", U32Of(Len(out.decoded.data)))
               ELSE RxResult("rejected", U32Of(0))]
    /\ UNCHANGED <<rxIn, rxStream, rxEof>>

RenderSourceReceiveMessage ==
    /\ rxOut["RenderSource::receiveMessage"] = RxPending
    /\ \E alloc \in BOOLEAN :
          rxOut' = [rxOut EXCEPT !["RenderSource::receiveMessage"] =
                       RxRenderSource(rxStream, rxEof, alloc)]
    /\ UNCHANGED <<rxIn, rxStream, rxEof>>

NetworkManagerReceiveMessage ==
    /\ rxOut["NetworkManager::receiveMessage"] = RxPending
    /\ \E alloc \in BOOLEAN :
          rxOut' = [rxOut EXCEPT !["NetworkManager::receiveMessage"] =
                       RxNetworkManager(rxStream, rxEof, alloc)]
    /\ UNCHANGED <<rxIn, rxStream, rxEof>>

\* =================================================================
\* AudioBuffer (playback ring buffer) and AudioProcessor::playCallback
\* =================================================================

\* AudioBuffer::read that goes on reading cells past the buffered samples
\* where it should write silence.
AudioBufferReadStale(buffer, pos, size, samples) ==
    LET to_read == IF samples < size THEN samples ELSE size
    IN  [data |-> [i \in 1..samples |-> buffer[(pos + i - 1) % AbCapacity]],
         read_pos |-> (pos + to_read) % AbCapacity,
         size_ |-> size - to_read,
         ok |-> to_read > 0]

\* AudioBuffer::read(data, samples): the output, the new read position and
\* size, and the return value.
AudioBufferRead(buffer, pos, size, samples) ==
    LET to_read == IF samples < size THEN samples ELSE size
    IN  [data |-> [i \in 1..samples |->
                      IF i <= to_read THEN buffer[(pos + i - 1) % AbCapacity] ELSE 0],
         read_pos |-> (pos + to_read) % AbCapacity,
         size_ |-> size - to_read,
         ok |-> to_read > 0]

\* AudioBuffer::write that stores every sample it is handed, over the unread
\* ones when the free space is too small.
AudioBufferWriteOverwrite(buffer, pos, size, data) ==
    LET to_write == Len(data)
    IN  [buffer |-> [c \in 0..(AbCapacity - 1) |->
                        IF \E i \in 1..to_write : c = (pos + i - 1) % AbCapacity
                        THEN data[((c - pos) % AbCapacity) + 1]
                        ELSE buffer[c]],
         write_pos |-> (pos + to_write) % AbCapacity,
         size_ |-> IF size + to_write < AbCapacity THEN size + to_write ELSE AbCapacity,
         stored |-> to_write,
         ok |-> to_write > 0]

\* AudioBuffer::write(data, samples): the new cells, write position and size,
\* the number of samples stored and the return value.
AudioBufferWrite(buffer, pos, size, data) ==
    LET samples == Len(data)
        available_space == AbCapacity - size
        to_write == IF samples < available_space THEN samples ELSE available_space
    IN  [buffer |-> [c \in 0..(AbCapacity - 1) |->
                        IF \E i \in 1..to_write : c = (pos + i - 1) % AbCapacity
                        THEN data[((c - pos) % AbCapacity) + 1]
                        ELSE buffer[c]],
         write_pos |-> (pos + to_write) % AbCapacity,
         size_ |-> size + to_write,
         stored |-> to_write,
         ok |-> to_write > 0 /\ to_write = samples]

\* AudioBuffer::AudioBuffer(capacity): the vector is value-initialised.
AbInit ==
    /\ ab_buffer_ = [i \in 0..(AbCapacity - 1) |-> 0]
    /\ read_pos = 0 /\ write_pos = 0 /\ size_ = 0
    /\ abNext = 0
    /\ abFifo = << >>
    /\ abOutput = << >> /\ abHeld = << >> /\ abPlayed = {}
    /\ abWrote = [data |-> << >>, space |-> 0, stored |-> 0, ok |-> TRUE]

\* AudioProcessor::addPlaybackData -> AudioBuffer::write(data, samples); the
\* samples handed in are abNext + 1, abNext + 2, ...
addPlaybackData(samples) ==
    /\ abNext + samples <= AbMaxSamples
    /\ LET data == [i \in 1..samples |-> abNext + i]
           put == AudioBufferWrite(ab_buffer_, write_pos, size_, data)
       IN  /\ ab_buffer_' = put.buffer
           /\ write_pos' = put.write_pos
           /\ size_' = put.size_
           /\ abFifo' = abFifo \o SubSeq(data, 1, put.stored)
           /\ abWrote' = [data |-> data, space |-> AbCapacity - size_,
                          stored |-> put.stored, ok |-> put.ok]
    /\ abNext' = abNext + samples
    /\ UNCHANGED <<read_pos, abOutput, abHeld, abPlayed>>

\* AudioProcessor::playCallback asking for samplesNeeded samples.
playCallback(samplesNeeded) ==
    LET got == AudioBufferRead(ab_buffer_, read_pos, size_, samplesNeeded)
    IN  /\ abOutput' = IF got.ok THEN got.data ELSE [i \in 1..samplesNeeded |-> 0]
        /\ read_pos' = got.read_pos
        /\ size_' = got.size_
        /\ abHeld' = abFifo
        /\ abPlayed' = abPlayed \cup ({ abOutput[i] : i \in 1..Len(abOutput) } \ {0})
        /\ abFifo' = SubSeq(abFifo, (IF samplesNeeded < Len(abFifo) THEN samplesNeeded
                                     ELSE Len(abFifo)) + 1, Len(abFifo))
        /\ UNCHANGED <<ab_buffer_, write_pos, abNext, abWrote>>

\* AudioBuffer::clear
AudioBufferClear ==
    /\ size_ > 0
    /\ read_pos' = 0 /\ write_pos' = 0 /\ size_' = 0
    /\ abFifo' = << >>
    /\ UNCHANGED <<ab_buffer_, abNext, abOutput, abHeld, abPlayed, abWrote>>

\* =================================================================
\* CaptureSink: what a connected sink puts on the wire
\* =================================================================

\* The message sendAudioData builds: Message(AUDIO_DATA), setTimestamp,
\* setAudioData. setSequence is not called, the header keeps sequence(0).
AudioMessage(data, timestamp) == MessageOf(1, data, 0, timestamp)

CsIdle == sequenceNumber_ = 0 /\ totalPacketsSent_ = 0 /\ csWire = << >>

\* CaptureSink::sendAudioData on a connected sink with samples > 0; sendMessage
\* writes the serialised message.
sendAudioData(data, timestamp, pad) ==
    /\ Len(csWire) < MaxSent
    /\ csWire' = Append(csWire,
                        serialize(AudioMessage(data, timestamp), pad))
    /\ totalPacketsSent_' = totalPacketsSent_ + 1
    /\ UNCHANGED sequenceNumber_

\* CaptureSink::CaptureSinkProcess when the heartbeat is due: Message(HEARTBEAT).
CaptureSinkProcess(timestamp, pad) ==
    /\ Len(csWire) < MaxSent
    /\ csWire' = Append(csWire, serialize(MessageOf(2, << >>, 0, timestamp), pad))
    /\ UNCHANGED <<sequenceNumber_, totalPacketsSent_>>

\* =================================================================
\* AudioClient: connect, startAudio, stopAudio, disconnect and its threads
\* =================================================================

\* startAudio that leaves the capture stream running when the render stream
\* cannot be started.
StartStreamsNoRollback(initOk, recOk, playOk) ==
    IF ~initOk
    THEN [ok |-> FALSE, initialized |-> FALSE, buffer |-> FALSE,
          recording |-> FALSE, playing |-> FALSE]
    ELSE [ok |-> recOk /\ playOk, initialized |-> TRUE, buffer |-> TRUE,
          recording |-> recOk, playing |-> recOk /\ playOk]

\* The AudioProcessor calls of startAudio: initialize (after the cleanup of an
\* initialised processor), startRecording, startPlayback, and stop() when
\* startPlayback fails. The arguments say which PortAudio calls succeed.
StartStreams(initOk, recOk, playOk) ==
    IF ~initOk
    THEN [ok |-> FALSE, initialized |-> FALSE, buffer |-> FALSE,
          recording |-> FALSE, playing |-> FALSE]
    ELSE [ok |-> recOk /\ playOk, initialized |-> TRUE, buffer |-> TRUE,
          recording |-> recOk /\ playOk, playing |-> recOk /\ playOk]

\* AudioClient::AudioClient, AudioProcessor::AudioProcessor
AcInit ==
    /\ connected_ = FALSE /\ isAudioActive = FALSE
    /\ running_ = FALSE /\ jitterBufferRunning_ = FALSE
    /\ network_thread_ = "none" /\ jitterBufferThread_ = "none"
    /\ disconnectPc = "idle"
    /\ recording_ = FALSE /\ playing_ = FALSE
    /\ initialized_ = FALSE /\ playback_buffer_ = FALSE
    /\ isConnected_ = FALSE /\ inbound = 0 /\ serverClosed = FALSE
    /\ lastCall = [op |-> "none", ok |-> TRUE, ready |-> FALSE]

\* AudioClient::connect; ok is whether NetworkManager::connectToServer succeeds.
connect(ok) ==
    /\ disconnectPc = "idle"
    /\ ~connected_
    /\ lastCall' = [op |-> "connect", ok |-> ok, ready |-> FALSE]
    /\ IF ok
       THEN /\ isConnected_' = TRUE
            /\ inbound' = 0 /\ serverClosed' = FALSE
            /\ connected_' = TRUE /\ running_' = TRUE
            /\ network_thread_' = "top"
            /\ jitterBufferRunning_' = TRUE
            /\ jitterBufferThread_' = "top"
       ELSE UNCHANGED <<isConnected_, inbound, serverClosed, connected_, running_,
                        network_thread_, jitterBufferRunning_, jitterBufferThread_>>
    /\ UNCHANGED <<isAudioActive, disconnectPc, recording_, playing_,
                   initialized_, playback_buffer_>>

\* AudioClient::startAudio on a connected client that is not active.
AudioClientStartAudio(initOk, recOk, playOk) ==
    /\ disconnectPc = "idle"
    /\ connected_ /\ ~isAudioActive
    /\ LET started == StartStreams(initOk, recOk, playOk)
       IN  /\ initialized_' = started.initialized
           /\ playback_buffer_' = started.buffer
           /\ recording_' = started.recording
           /\ playing_' = started.playing
           /\ isAudioActive' = started.ok
           /\ lastCall' = [op |-> "startAudio", ok |-> started.ok, ready |-> started.ok]
    /\ UNCHANGED <<connected_, running_, jitterBufferRunning_, network_thread_,
                   jitterBufferThread_, disconnectPc, isConnected_, inbound,
                   serverClosed>>

\* AudioClient::stopAudio on an active client: AudioProcessor::stop, cleanup.
AudioClientStopAudio ==
    /\ disconnectPc = "idle"
    /\ isAudioActive
    /\ recording_' = FALSE /\ playing_' = FALSE
    /\ playback_buffer_' = FALSE /\ initialized_' = FALSE
    /\ isAudioActive' = FALSE
    /\ lastCall' = [op |-> "stopAudio", ok |-> TRUE, ready |-> FALSE]
    /\ UNCHANGED <<connected_, running_, jitterBufferRunning_, network_thread_,
                   jitterBufferThread_, disconnectPc, isConnected_, inbound,
                   serverClosed>>

\* AudioClient::disconnect up to the first join.
DisconnectBegin ==
    /\ disconnectPc = "idle"
    /\ connected_
    /\ running_' = FALSE /\ jitterBufferRunning_' = FALSE
    /\ disconnectPc' = "join_network"
    /\ lastCall' = [op |-> "disconnect", ok |-> TRUE, ready |-> FALSE]
    /\ UNCHANGED <<connected_, isAudioActive, network_thread_, jitterBufferThread_,
                   recording_, playing_, initialized_, playback_buffer_,
                   isConnected_, inbound, serverClosed>>

\* network_thread_.join() returns once networkLoop has returned.
DisconnectJoinNetwork ==
    /\ disconnectPc = "join_network"
    /\ network_thread_ \in {"none", "exited"}
    /\ network_thread_' = "none"
    /\ disconnectPc' = "join_jitter"
    /\ UNCHANGED <<connected_, isAudioActive, running_, jitterBufferRunning_,
                   jitterBufferThread_, recording_, playing_, initialized_,
                   playback_buffer_, isConnected_, inbound, serverClosed, lastCall>>

\* jitterBufferThread_.join(), then stopAudio(), NetworkManager::disconnect()
\* (the socket is closed) and connected_ = false.
DisconnectJoinJitter ==
    /\ disconnectPc = "join_jitter"
    /\ jitterBufferThread_ \in {"none", "exited"}
    /\ jitterBufferThread_' = "none"
    /\ IF isAudioActive
       THEN /\ recording_' = FALSE /\ playing_' = FALSE
            /\ playback_buffer_' = FALSE /\ initialized_' = FALSE
       ELSE UNCHANGED <<recording_, playing_, playback_buffer_, initialized_>>
    /\ isAudioActive' = FALSE
    /\ isConnected_' = FALSE
    /\ inbound' = 0
    /\ connected_' = FALSE
    /\ disconnectPc' = "idle"
    /\ UNCHANGED <<running_, jitterBufferRunning_, network_thread_, serverClosed,
                   lastCall>>

\* AudioClient::networkLoop: the while (running_) test.
NetworkLoopTop ==
    /\ network_thread_ = "top"
    /\ network_thread_' = IF running_ THEN "recv" ELSE "exited"
    /\ UNCHANGED <<connected_, isAudioActive, running_, jitterBufferRunning_,
                   jitterBufferThread_, disconnectPc, recording_, playing_,
                   initialized_, playback_buffer_, isConnected_, inbound,
                   serverClosed, lastCall>>

\* networkLoop: the blocking receiveMessage returns a message, which
\* handleNetworkMessage handles.
NetworkLoopReceive ==
    /\ network_thread_ = "recv"
    /\ inbound > 0
    /\ inbound' = inbound - 1
    /\ network_thread_' = "top"
    /\ UNCHANGED <<connected_, isAudioActive, running_, jitterBufferRunning_,
                   jitterBufferThread_, disconnectPc, recording_, playing_,
                   initialized_, playback_buffer_, isConnected_, serverClosed,
                   lastCall>>

\* networkLoop: receiveMessage fails (the server closed): running_ = false, return.
NetworkLoopFail ==
    /\ network_thread_ = "recv"
    /\ inbound = 0 /\ serverClosed
    /\ running_' = FALSE
    /\ network_thread_' = "exited"
    /\ UNCHANGED <<connected_, isAudioActive, jitterBufferRunning_,
                   jitterBufferThread_, disconnectPc, recording_, playing_,
                   initialized_, playback_buffer_, isConnected_, inbound,
                   serverClosed, lastCall>>

\* AudioClient::jitterBufferLoop: the while (jitterBufferRunning_) test.
JitterBufferLoop ==
    /\ jitterBufferThread_ = "top"
    /\ jitterBufferThread_' = IF jitterBufferRunning_ THEN "process" ELSE "exited"
    /\ UNCHANGED <<connected_, isAudioActive, running_, jitterBufferRunning_,
                   network_thread_, disconnectPc, recording_, playing_,
                   initialized_, playback_buffer_, isConnected_, inbound,
                   serverClosed, lastCall>>

\* jitterBufferLoop: one processJitterBuffer() and the 5 ms sleep after it.
processJitterBuffer ==
    /\ jitterBufferThread_ = "process"
    /\ jitterBufferThread_' = "top"
    /\ UNCHANGED <<connected_, isAudioActive, running_, jitterBufferRunning_,
                   network_thread_, disconnectPc, recording_, playing_,
                   initialized_, playback_buffer_, isConnected_, inbound,
                   serverClosed, lastCall>>

\* The server sends the client a message, or closes the connection.
ServerSends ==
    /\ isConnected_ /\ ~serverClosed
    /\ inbound < MaxInbound
    /\ inbound' = inbound + 1
    /\ UNCHANGED <<connected_, isAudioActive, running_, jitterBufferRunning_,
                   network_thread_, jitterBufferThread_, disconnectPc, recording_,
                   playing_, initialized_, playback_buffer_, isConnected_,
                   serverClosed, lastCall>>

ServerCloses ==
    /\ isConnected_ /\ ~serverClosed
    /\ serverClosed' = TRUE
    /\ UNCHANGED <<connected_, isAudioActive, running_, jitterBufferRunning_,
                   network_thread_, jitterBufferThread_, disconnectPc, recording_,
                   playing_, initialized_, playback_buffer_, isConnected_,
                   inbound, lastCall>>

\* =================================================================
\* AudioClient, receiving side: handleNetworkMessage and processJitterBuffer
\* =================================================================

Senders == 1..NumSenders
NoFlip == [size |-> 0, waited |-> 0, rearm |-> FALSE]

\* The sequenceNumber handleNetworkMessage gives a packet: its own counter of
\* the packets inserted since startAudio (incomingSequenceNumber_++); the
\* message has no sequence field.
InsertSequence(incoming, sent) == incoming

InIdle ==
    /\ incomingSequenceNumber_ = 0
    /\ clientJitterReady = FALSE
    /\ lastPacketTime_ = 0
    /\ clock = 0
    /\ currentBufferSize = 0
    /\ packetsToProcess = 0
    /\ senderNext = [s \in Senders |-> 0]
    /\ inserted = << >>
    /\ firstInsertTime = NoSeq
    /\ readyFlip = NoFlip
    /\ underrunSeen = FALSE

\* Time passes.
Tick ==
    /\ clock < MaxClockMs
    /\ clock' = clock + TickMs
    /\ UNCHANGED <<incomingSequenceNumber_, clientJitterReady, lastPacketTime_,
                   currentBufferSize, packetsToProcess, senderNext, inserted,
                   firstInsertTime, readyFlip, underrunSeen>>
    /\ UNCHANGED <<jbVars, acVars>>

\* AudioClient::connect, which touches none of the receiving state.
InboundConnect(ok) == connect(ok) /\ UNCHANGED <<jbVars, inVars>>

\* The server relays a sender's message to this client.
InboundServerSends == ServerSends /\ UNCHANGED <<jbVars, inVars>>

\* networkLoop and jitterBufferLoop: the loop tests.
InboundNetworkLoopTop == NetworkLoopTop /\ UNCHANGED <<jbVars, inVars>>
InboundJitterBufferLoop == JitterBufferLoop /\ UNCHANGED <<jbVars, inVars>>

\* AudioClient::startAudio with what it does to the jitter buffer once
\* initialize has succeeded: clear(), setMinBufferSize(3), setMaxBufferSize(64),
\* jitterBufferReady_ = false, incomingSequenceNumber_ = 0.
InboundStartAudio(initOk, recOk, playOk) ==
    /\ AudioClientStartAudio(initOk, recOk, playOk)
    /\ IF initOk
       THEN /\ buffer_' = EmptyBag
            /\ seenSequences_' = {}
            /\ jbArrived' = << >>
            /\ jbRendered' = << >>
            /\ minBufferSize_' = 3
            /\ maxBufferSize_' = 64
            /\ UNCHANGED lastSequenceNumber_
            /\ clientJitterReady' = FALSE
            /\ incomingSequenceNumber_' = 0
            /\ inserted' = << >>
            /\ firstInsertTime' = NoSeq
            /\ UNCHANGED <<lastPacketTime_, clock, currentBufferSize,
                           packetsToProcess, senderNext, readyFlip, underrunSeen>>
       ELSE UNCHANGED <<jbVars, inVars>>

\* networkLoop receives a message and AudioClient::handleNetworkMessage handles
\* it: AUDIO_DATA with data, on an active client, goes into the jitter buffer.
handleNetworkMessage(sender, type, size) ==
    /\ NetworkLoopReceive
    /\ type = AUDIO_DATA => BagSum(senderNext, Senders) < MaxArrivals
    /\ senderNext' = [senderNext EXCEPT ![sender] = IF type = AUDIO_DATA THEN @ + 1 ELSE @]
    /\ IF type = AUDIO_DATA /\ isAudioActive /\ size > 0
       THEN /\ addPacket(InsertSequence(incomingSequenceNumber_, senderNext[sender]))
            /\ incomingSequenceNumber_' = incomingSequenceNumber_ + 1
            /\ inserted' = Append(inserted,
                   [sender |-> sender, sent |-> senderNext[sender],
                    sequenceNumber |-> InsertSequence(incomingSequenceNumber_,
                                                      senderNext[sender])])
            /\ firstInsertTime' = IF BagSize(buffer_) = 0 THEN clock ELSE firstInsertTime
       ELSE UNCHANGED <<jbVars, incomingSequenceNumber_, inserted, firstInsertTime>>
    /\ UNCHANGED <<clientJitterReady, lastPacketTime_, clock, currentBufferSize,
                   packetsToProcess, readyFlip, underrunSeen>>

\* The thread of jitterBufferLoop at a given place, the other members of the
\* client unchanged.
JitterThreadTo(pc) ==
    /\ jitterBufferThread_' = pc
    /\ UNCHANGED <<connected_, isAudioActive, running_, jitterBufferRunning_,
                   network_thread_, disconnectPc, recording_, playing_,
                   initialized_, playback_buffer_, isConnected_, inbound,
                   serverClosed, lastCall>>

\* processJitterBuffer up to its loop: the early return, the size read, and
\* while not ready the two tests that set jitterBufferReady_.
ProcessJitterBufferBegin ==
    /\ jitterBufferThread_ = "process"
    /\ UNCHANGED <<jbVars, clock, incomingSequenceNumber_, senderNext, inserted,
                   firstInsertTime, underrunSeen>>
    /\ IF ~isAudioActive
       THEN /\ JitterThreadTo("top")
            /\ UNCHANGED <<clientJitterReady, lastPacketTime_, currentBufferSize,
                           packetsToProcess, readyFlip>>
       ELSE LET size == BagSize(buffer_)
                flip == [size |-> size, waited |-> clock - firstInsertTime,
                         rearm |-> underrunSeen]
            IN  /\ currentBufferSize' = size
                /\ IF ~clientJitterReady
                   THEN /\ JitterThreadTo("top")
                        /\ UNCHANGED packetsToProcess
                        /\ IF size >= 3
                           THEN /\ clientJitterReady' = TRUE
                                /\ lastPacketTime_' = clock
                                /\ readyFlip' = flip
                           ELSE IF clock - lastPacketTime_ > 100 /\ size > 0
                           THEN /\ clientJitterReady' = TRUE
                                /\ readyFlip' = flip
                                /\ UNCHANGED lastPacketTime_
                           ELSE UNCHANGED <<clientJitterReady, lastPacketTime_,
                                            readyFlip>>
                   ELSE /\ JitterThreadTo("drain")
                        /\ packetsToProcess' = IF size < 4 THEN size ELSE 4
                        /\ UNCHANGED <<clientJitterReady, lastPacketTime_, readyFlip>>

\* One iteration of the loop: getPacket, and the packet goes to playback; the
\* loop breaks when getPacket finds the store empty.
ProcessJitterBufferDrain ==
    /\ jitterBufferThread_ = "drain"
    /\ packetsToProcess > 0
    /\ getPacket
    /\ IF BagSize(buffer_) = 0
       THEN packetsToProcess' = 0 /\ UNCHANGED lastPacketTime_
       ELSE packetsToProcess' = packetsToProcess - 1 /\ lastPacketTime_' = clock
    /\ UNCHANGED <<acVars, incomingSequenceNumber_, clientJitterReady, clock,
                   currentBufferSize, senderNext, inserted, firstInsertTime,
                   readyFlip, underrunSeen>>

\* After the loop: the underrun test on the size read at the start.
ProcessJitterBufferEnd ==
    /\ jitterBufferThread_ = "drain"
    /\ packetsToProcess = 0
    /\ JitterThreadTo("top")
    /\ IF currentBufferSize = 0 /\ clientJitterReady /\ clock - lastPacketTime_ > 50
       THEN clientJitterReady' = FALSE /\ underrunSeen' = TRUE
       ELSE UNCHANGED <<clientJitterReady, underrunSeen>>
    /\ UNCHANGED <<jbVars, incomingSequenceNumber_, lastPacketTime_, clock,
                   currentBufferSize, packetsToProcess, senderNext, inserted,
                   firstInsertTime, readyFlip>>

\* =================================================================
\* AudioClient with its callbacks: recordCallback -> onAudioCaptured,
\* playCallback -> AudioBuffer::read, and the blocking socket
\* =================================================================

\* onAudioCaptured that sends whenever the client is connected.
CaptureGateConnected(connected, active) == connected

\* onAudioCaptured goes on past its first line (if (!connected_ ||
\* !audio_active_) return;).
CaptureGate(connected, active) == connected /\ active

CbIdle ==
    /\ clientWire = << >>
    /\ sendRoom = SendBuffer
    /\ mainPc = "idle" /\ capturePc = "idle" /\ playPc = "idle"
    /\ bufferMutex = "free"
    /\ captureSkipped = FALSE
    /\ ioFailed = FALSE

\* The message as it is remembered: its type and whether both streams were
\* started when it was written.
WireEntry(type) == [type |-> type, streams |-> recording_ /\ playing_]

\* NetworkManager::sendMessage(message) -> sendRawData -> send(): false
\* without a socket; an error once the server has closed; otherwise send()
\* returns when the send buffer has taken the message.
SendMessage(type) ==
    IF ~isConnected_ \/ serverClosed
    THEN UNCHANGED <<clientWire, sendRoom>>
    ELSE /\ sendRoom > 0
         /\ sendRoom' = sendRoom - 1
         /\ clientWire' = IF Len(clientWire) < MaxWire
                          THEN Append(clientWire, WireEntry(type))
                          ELSE clientWire

\* send() is waiting for room in the send buffer.
SendWaits == isConnected_ /\ ~serverClosed /\ sendRoom = 0

\* AudioClient::connect: connectToServer, sendMessage(CLIENT_CONFIG), the flags
\* and the two threads.
CallbackConnect(ok) ==
    /\ mainPc = "idle"
    /\ connect(ok)
    /\ IF ok
       THEN /\ clientWire' = << WireEntry(CLIENT_CONFIG) >>
            /\ sendRoom' = SendBuffer - 1
            /\ ioFailed' = FALSE
       ELSE UNCHANGED <<clientWire, sendRoom, ioFailed>>
    /\ UNCHANGED <<mainPc, capturePc, playPc, bufferMutex, captureSkipped>>

\* startAudio up to the CLIENT_READY message: initialize, the jitter buffer
\* reset, setAudioCaptureCallback, startRecording, startPlayback.
StartAudioStreams(initOk, recOk, playOk) ==
    /\ mainPc = "idle" /\ disconnectPc = "idle"
    /\ connected_ /\ ~isAudioActive
    /\ LET started == StartStreams(initOk, recOk, playOk)
       IN  /\ initialized_' = started.initialized
           /\ playback_buffer_' = started.buffer
           /\ recording_' = started.recording
           /\ playing_' = started.playing
           /\ mainPc' = IF started.ok THEN "ready" ELSE "idle"
           /\ lastCall' = IF started.ok THEN lastCall
                          ELSE [op |-> "startAudio", ok |-> FALSE, ready |-> FALSE]
    /\ UNCHANGED <<connected_, isAudioActive, running_, jitterBufferRunning_,
                   network_thread_, jitterBufferThread_, disconnectPc, isConnected_,
                   inbound, serverClosed>>
    /\ UNCHANGED <<clientWire, sendRoom, capturePc, playPc, bufferMutex,
                   captureSkipped, ioFailed>>

\* startAudio: network_manager_.sendMessage(ready_msg), its result unused.
StartAudioSendReady ==
    /\ mainPc = "ready"
    /\ SendMessage(CLIENT_READY)
    /\ mainPc' = "activate"
    /\ UNCHANGED acVars
    /\ UNCHANGED <<capturePc, playPc, bufferMutex, captureSkipped, ioFailed>>

\* startAudio: audio_active_ = true; return true.
StartAudioActivate ==
    /\ mainPc = "activate"
    /\ isAudioActive' = TRUE
    /\ mainPc' = "idle"
    /\ lastCall' = [op |-> "startAudio", ok |-> TRUE, ready |-> TRUE]
    /\ UNCHANGED <<connected_, running_, jitterBufferRunning_, network_thread_,
                   jitterBufferThread_, disconnectPc, recording_, playing_,
                   initialized_, playback_buffer_, isConnected_, inbound,
                   serverClosed>>
    /\ UNCHANGED <<clientWire, sendRoom, capturePc, playPc, bufferMutex,
                   captureSkipped, ioFailed>>

\* Pa_StopStream returns when the stream's callback is not running.
CallbacksDone == capturePc = "idle" /\ playPc = "idle"

\* AudioClient::stopAudio; AudioProcessor::stop waits for the callbacks.
CallbackStopAudio ==
    /\ mainPc = "idle"
    /\ CallbacksDone
    /\ AudioClientStopAudio
    /\ UNCHANGED cbVars

\* AudioClient::disconnect, in the three steps of the main thread.
CallbackDisconnectBegin ==
    /\ mainPc = "idle"
    /\ DisconnectBegin
    /\ UNCHANGED cbVars

CallbackDisconnectJoinNetwork == DisconnectJoinNetwork /\ UNCHANGED cbVars

CallbackDisconnectJoinJitter ==
    /\ isAudioActive => CallbacksDone
    /\ DisconnectJoinJitter
    /\ UNCHANGED cbVars

\* networkLoop: the while test.
CallbackNetworkLoopTop == NetworkLoopTop /\ UNCHANGED cbVars

\* networkLoop: a message is received and handled; handleNetworkMessage
\* answers a HEARTBEAT with a HEARTBEAT.
CallbackNetworkLoopReceive(type) ==
    /\ NetworkLoopReceive
    /\ IF type = HEARTBEAT
       THEN SendMessage(HEARTBEAT)
       ELSE UNCHANGED <<clientWire, sendRoom>>
    /\ ioFailed' = (ioFailed \/ (type = HEARTBEAT /\ serverClosed))
    /\ UNCHANGED <<mainPc, capturePc, playPc, bufferMutex, captureSkipped>>

\* networkLoop: receiveMessage fails; "Connection to server lost",
\* running_ = false, break.
CallbackNetworkLoopFail ==
    /\ NetworkLoopFail
    /\ ioFailed' = TRUE
    /\ UNCHANGED <<clientWire, sendRoom, mainPc, capturePc, playPc, bufferMutex,
                   captureSkipped>>

\* jitterBufferLoop: the while test.
CallbackJitterBufferLoop == JitterBufferLoop /\ UNCHANGED cbVars

\* processJitterBuffer with nothing to play.
CallbackProcessNothing == processJitterBuffer /\ UNCHANGED cbVars

\* processJitterBuffer -> addPlaybackData -> AudioBuffer::write takes mutex_.
AddPlaybackDataLock ==
    /\ jitterBufferThread_ = "process"
    /\ playback_buffer_
    /\ bufferMutex = "free"
    /\ bufferMutex' = "jitter"
    /\ JitterThreadTo("write")
    /\ UNCHANGED <<clientWire, sendRoom, mainPc, capturePc, playPc,
                   captureSkipped, ioFailed>>

\* AudioBuffer::write returns, the jitter thread goes on to its sleep.
AddPlaybackDataUnlock ==
    /\ jitterBufferThread_ = "write"
    /\ bufferMutex' = "free"
    /\ JitterThreadTo("top")
    /\ UNCHANGED <<clientWire, sendRoom, mainPc, capturePc, playPc,
                   captureSkipped, ioFailed>>

\* AudioProcessor::recordCallback -> capture_callback_ -> onAudioCaptured up
\* to sendMessage.
OnAudioCapturedBegin ==
    /\ recording_
    /\ capturePc = "idle"
    /\ IF CaptureGate(connected_, isAudioActive)
       THEN capturePc' = "send" /\ UNCHANGED captureSkipped
       ELSE captureSkipped' = TRUE /\ UNCHANGED capturePc
    /\ UNCHANGED acVars
    /\ UNCHANGED <<clientWire, sendRoom, mainPc, playPc, bufferMutex, ioFailed>>

\* onAudioCaptured: network_manager_.sendMessage(audio_msg) returns, its
\* result unused; the callback returns paContinue.
OnAudioCapturedSend ==
    /\ capturePc = "send"
    /\ SendMessage(AUDIO_DATA)
    /\ ioFailed' = (ioFailed \/ (isConnected_ /\ serverClosed))
    /\ capturePc' = "idle"
    /\ UNCHANGED acVars
    /\ UNCHANGED <<mainPc, playPc, bufferMutex, captureSkipped>>

\* AudioProcessor::playCallback up to playback_buffer_->read.
PlayCallbackBegin ==
    /\ playing_ /\ playback_buffer_
    /\ playPc = "idle"
    /\ playPc' = "lock"
    /\ UNCHANGED acVars
    /\ UNCHANGED <<clientWire, sendRoom, mainPc, capturePc, bufferMutex,
                   captureSkipped, ioFailed>>

\* AudioBuffer::read: std::lock_guard<std::mutex> lock(mutex_).
AudioBufferReadLock ==
    /\ playPc = "lock"
    /\ bufferMutex = "free"
    /\ bufferMutex' = "play"
    /\ playPc' = "read"
    /\ UNCHANGED acVars
    /\ UNCHANGED <<clientWire, sendRoom, mainPc, capturePc, captureSkipped, ioFailed>>

\* AudioBuffer::read returns, the callback returns paContinue.
AudioBufferReadUnlock ==
    /\ playPc = "read"
    /\ bufferMutex' = "free"
    /\ playPc' = "idle"
    /\ UNCHANGED acVars
    /\ UNCHANGED <<clientWire, sendRoom, mainPc, capturePc, captureSkipped, ioFailed>>

\* The server reads a message the client has sent.
ServerReads ==
    /\ isConnected_ /\ ~serverClosed
    /\ sendRoom < SendBuffer
    /\ sendRoom' = sendRoom + 1
    /\ UNCHANGED acVars
    /\ UNCHANGED <<clientWire, mainPc, capturePc, playPc, bufferMutex,
                   captureSkipped, ioFailed>>

\* =================================================================
\* AudioServer over NetworkManager
\* =================================================================

Sockets == 1..NumClients
NoFrame == << >>

\* NetworkManager::receiveMessage(message, socket): a 16-byte header, then
\* header.size bytes of data.
receiveMessage(frame) ==
    LET size == FromLE(SubSeq(frame, 5, 8))
    IN  [type |-> FromLE(SubSeq(frame, 1, 4)),
         size |-> size,
         timestamp |-> FromLE(SubSeq(frame, 9, 16)),
         data |-> IF size > 0 THEN SubSeq(frame, NmHeaderSize + 1, NmHeaderSize + size)
                  ELSE << >>]

\* broadcastAudioToOthers with the sender's own record not excluded.
isRecipientOrSender(client, sender_socket) == client.ready

\* broadcastAudioToOthers without the test of the record's ready flag.
isRecipientUnready(client, sender_socket) == client.socket_fd # sender_socket

\* The test of broadcastAudioToOthers' loop.
isRecipient(client, sender_socket) ==
    client.socket_fd # sender_socket /\ client.ready

\* The loop of broadcastAudioToOthers from position i on: the position of the
\* first record it sends to, or Len + 1 when it runs to the end without a send.
NextRecipient(clients, sender_socket, i) ==
    LET later == { j \in i..Len(clients) : isRecipient(clients[j], sender_socket) }
    IN  IF later = {} THEN Len(clients) + 1 ELSE Min(later)

\* AudioServer::addClient
addClient(clients, socket_fd) ==
    Append(clients, [socket_fd |-> socket_fd, ready |-> FALSE])

\* AudioServer::removeClient: erase every record of the socket.
removeClient(clients, socket_fd) ==
    SelectSeq(clients, LAMBDA client : client.socket_fd # socket_fd)

\* The CLIENT_READY case: std::find_if takes the first record of the socket.
markReady(clients, socket_fd) ==
    IF \E i \in 1..Len(clients) : clients[i].socket_fd = socket_fd
    THEN LET i == Min({ j \in 1..Len(clients) : clients[j].socket_fd = socket_fd })
         IN  [clients EXCEPT ![i].ready = TRUE]
    ELSE clients

\* What a client puts on the wire: AudioClient builds the struct and
\* NetworkManager::sendMessage serialises it. The payload names the sender;
\* the timestamp (the clock at the send) tells the n-th audio frame of the run
\* from the others.
ClientFrame(c, type, n) ==
    serializeMessage(NmMessage(type, (256 * (n + 1)) + c,
                               IF type = AUDIO_DATA THEN <<c, 255>> ELSE << >>))

\* receiveMessage taking the newest unread frame of a socket.
NextMessageNewest(queue) ==
    [frame |-> queue[Len(queue)], rest |-> SubSeq(queue, 1, Len(queue) - 1)]

\* The blocking reads of receiveMessage take the oldest unread bytes of the
\* socket: the frame read, and what stays unread.
NextMessage(queue) == [frame |-> Head(queue), rest |-> Tail(queue)]

\* Every frame a client puts on the wire, what receiveMessage makes of it, and
\* the bytes sendMessage writes when that message is forwarded.
WireFrames ==
    { ClientFrame(c, type, n) : c \in Sockets, type \in NmTypes, n \in 0..MaxFrames }
Arrived == [frame \in WireFrames |-> receiveMessage(frame)]
Forwarded == [frame \in WireFrames |-> serializeMessage(Arrived[frame])]

SrvInit ==
    /\ connectedClients_ = << >>
    /\ clients_ = << >>
    /\ clients_mutex_ = 0
    /\ acceptSocket = 0
    /\ handlerPc = [c \in Sockets |-> "none"]
    /\ handlerFrame = [c \in Sockets |-> NoFrame]
    /\ broadcastIdx = [c \in Sockets |-> 0]
    /\ broadcastWrote = [c \in Sockets |-> {}]
    /\ broadcastFailed = [c \in Sockets |-> {}]
    /\ toServer = [c \in Sockets |-> << >>]
    /\ toClient = [c \in Sockets |-> << >>]
    /\ peerClosed = [c \in Sockets |-> FALSE]
    /\ audio_active_ = [c \in Sockets |-> FALSE]
    /\ framesSent = 0

\* NetworkManager::serverLoop up to the detach: accept, record the socket,
\* start its handleClient thread.
Accept ==
    /\ acceptSocket = 0
    /\ \E c \in Sockets :
          /\ handlerPc[c] = "none"
          /\ \A d \in Sockets : d < c => handlerPc[d] # "none"
          /\ connectedClients_' = Append(connectedClients_, c)
          /\ handlerPc' = [handlerPc EXCEPT ![c] = "recv"]
          /\ acceptSocket' = c
    /\ UNCHANGED <<clients_, clients_mutex_, handlerFrame, broadcastIdx,
                   broadcastWrote, broadcastFailed, toServer, toClient,
                   peerClosed, audio_active_, framesSent>>

\* NetworkManager::serverLoop after the detach: messageHandler_(CONNECT) ->
\* AudioServer::handleClientMessage -> addClient.
AcceptNotify ==
    /\ acceptSocket # 0
    /\ clients_mutex_ = 0
    /\ clients_' = addClient(clients_, acceptSocket)
    /\ acceptSocket' = 0
    /\ UNCHANGED <<connectedClients_, clients_mutex_, handlerPc, handlerFrame,
                   broadcastIdx, broadcastWrote, broadcastFailed, toServer,
                   toClient, peerClosed, audio_active_, framesSent>>

\* AudioClient::startAudio: CLIENT_READY is sent, then audio_active_ is set.
startAudio(c) ==
    /\ handlerPc[c] # "none"
    /\ ~peerClosed[c]
    /\ ~audio_active_[c]
    /\ toServer[c] = << >>
    /\ toServer' = [toServer EXCEPT ![c] = Append(@, ClientFrame(c, CLIENT_READY, 0))]
    /\ audio_active_' = [audio_active_ EXCEPT ![c] = TRUE]
    /\ UNCHANGED <<connectedClients_, clients_, clients_mutex_, acceptSocket,
                   handlerPc, handlerFrame, broadcastIdx, broadcastWrote,
                   broadcastFailed, toClient, peerClosed, framesSent>>

\* AudioClient::onAudioCaptured: one AUDIO_DATA message, only while audio_active_.
onAudioCaptured(c) ==
    /\ handlerPc[c] # "none"
    /\ ~peerClosed[c]
    /\ audio_active_[c]
    /\ framesSent < MaxFrames
    /\ Len(toServer[c]) < MaxUnread
    /\ toServer' = [toServer EXCEPT ![c] = Append(@, ClientFrame(c, AUDIO_DATA, framesSent + 1))]
    /\ framesSent' = framesSent + 1
    /\ UNCHANGED <<connectedClients_, clients_, clients_mutex_, acceptSocket,
                   handlerPc, handlerFrame, broadcastIdx, broadcastWrote,
                   broadcastFailed, toClient, peerClosed, audio_active_>>

\* A client reads one frame from its socket.
ClientReceive(c) ==
    /\ ~peerClosed[c]
    /\ toClient[c] # << >>
    /\ toClient' = [toClient EXCEPT ![c] = Tail(@)]
    /\ UNCHANGED <<connectedClients_, clients_, clients_mutex_, acceptSocket,
                   handlerPc, handlerFrame, broadcastIdx, broadcastWrote,
                   broadcastFailed, toServer, peerClosed, audio_active_, framesSent>>

\* AudioClient::disconnect: stopAudio clears audio_active_, then
\* NetworkManager::disconnect closes the socket; what the client had not
\* read is discarded with it.
disconnect(c) ==
    /\ handlerPc[c] # "none"
    /\ ~peerClosed[c]
    /\ Cardinality({ d \in Sockets : peerClosed[d] }) < MaxCloses
    /\ peerClosed' = [peerClosed EXCEPT ![c] = TRUE]
    /\ audio_active_' = [audio_active_ EXCEPT ![c] = FALSE]
    /\ toClient' = [toClient EXCEPT ![c] = << >>]
    /\ UNCHANGED <<connectedClients_, clients_, clients_mutex_, acceptSocket,
                   handlerPc, handlerFrame, broadcastIdx, broadcastWrote,
                   broadcastFailed, toServer, framesSent>>

\* handleClient has read a frame of the given type from socket c.
Received(c, type) ==
    /\ handlerPc[c] = "recv"
    /\ toServer[c] # << >>
    /\ Arrived[NextMessage(toServer[c]).frame].type = type

\* handleClientMessage's CLIENT_READY case.
HandleReady(c) ==
    /\ Received(c, CLIENT_READY)
    /\ clients_mutex_ = 0
    /\ clients_' = markReady(clients_, c)
    /\ toServer' = [toServer EXCEPT ![c] = NextMessage(@).rest]
    /\ UNCHANGED <<handlerFrame, connectedClients_, clients_mutex_, acceptSocket, handlerPc,
                   broadcastIdx, broadcastWrote, broadcastFailed, toClient,
                   peerClosed, audio_active_, framesSent>>

\* handleClientMessage's AUDIO_DATA case up to the lock_guard of
\* broadcastAudioToOthers (the record lookup before it changes nothing).
HandleAudio(c) ==
    /\ Received(c, AUDIO_DATA)
    /\ clients_mutex_ = 0
    /\ clients_mutex_' = c
    /\ handlerPc' = [handlerPc EXCEPT ![c] = "broadcast"]
    /\ broadcastIdx' = [broadcastIdx EXCEPT ![c] = NextRecipient(clients_, c, 1)]
    /\ broadcastWrote' = [broadcastWrote EXCEPT ![c] = {}]
    /\ broadcastFailed' = [broadcastFailed EXCEPT ![c] = {}]
    /\ handlerFrame' = [handlerFrame EXCEPT ![c] = NextMessage(toServer[c]).frame]
    /\ toServer' = [toServer EXCEPT ![c] = NextMessage(@).rest]
    /\ UNCHANGED <<connectedClients_, clients_, acceptSocket, toClient,
                   peerClosed, audio_active_, framesSent>>

\* The socket the running broadcast of c is about to write to cannot take it:
\* the blocking send() of sendRawData does not return.
SendBlocked(c) ==
    /\ handlerPc[c] = "broadcast"
    /\ broadcastIdx[c] <= Len(clients_)
    /\ ~peerClosed[clients_[broadcastIdx[c]].socket_fd]
    /\ Len(toClient[clients_[broadcastIdx[c]].socket_fd]) >= SockBufFrames

\* broadcastAudioToOthers' loop, clients_mutex_ held: one sendMessage, and the
\* iterations after it that send nothing.
BroadcastStep(c) ==
    /\ handlerPc[c] = "broadcast"
    /\ broadcastIdx[c] <= Len(clients_)
    /\ LET to == clients_[broadcastIdx[c]].socket_fd
           frame == Forwarded[handlerFrame[c]]
       IN  IF peerClosed[to]
           THEN /\ broadcastFailed' = [broadcastFailed EXCEPT ![c] = @ \cup {to}]
                /\ UNCHANGED <<toClient, broadcastWrote>>
           ELSE /\ Len(toClient[to]) < SockBufFrames
                /\ toClient' = [toClient EXCEPT ![to] = Append(@, frame)]
                /\ broadcastWrote' = [broadcastWrote EXCEPT ![c] =
                       @ \cup {[to |-> to, frame |-> frame]}]
                /\ UNCHANGED broadcastFailed
    /\ broadcastIdx' = [broadcastIdx EXCEPT ![c] =
           NextRecipient(clients_, c, broadcastIdx[c] + 1)]
    /\ UNCHANGED <<connectedClients_, clients_, clients_mutex_, acceptSocket,
                   handlerPc, handlerFrame, toServer, peerClosed, audio_active_,
                   framesSent>>

\* The loop is over: the lock_guard releases clients_mutex_.
BroadcastEnd(c) ==
    /\ handlerPc[c] = "broadcast"
    /\ broadcastIdx[c] > Len(clients_)
    /\ clients_mutex_' = 0
    /\ handlerPc' = [handlerPc EXCEPT ![c] = "recv"]
    /\ broadcastIdx' = [broadcastIdx EXCEPT ![c] = 0]
    /\ broadcastWrote' = [broadcastWrote EXCEPT ![c] = {}]
    /\ broadcastFailed' = [broadcastFailed EXCEPT ![c] = {}]
    /\ handlerFrame' = [handlerFrame EXCEPT ![c] = NoFrame]
    /\ UNCHANGED <<connectedClients_, clients_, acceptSocket,
                   toServer, toClient, peerClosed, audio_active_, framesSent>>

\* handleClient after receiveMessage failed: the socket leaves
\* connectedClients_, DISCONNECT is dispatched (removeClient), the socket is closed.
HandlerExit(c) ==
    /\ handlerPc[c] = "recv"
    /\ toServer[c] = << >>
    /\ peerClosed[c]
    /\ clients_mutex_ = 0
    /\ connectedClients_' = SelectSeq(connectedClients_, LAMBDA d : d # c)
    /\ clients_' = removeClient(clients_, c)
    /\ handlerPc' = [handlerPc EXCEPT ![c] = "done"]
    /\ UNCHANGED <<clients_mutex_, acceptSocket, handlerFrame, broadcastIdx,
                   broadcastWrote, broadcastFailed, toServer, toClient,
                   peerClosed, audio_active_, framesSent>>

RelayIdle == relayLog = [c \in Sockets |-> << >>]

\* What the step's sendMessage calls wrote is appended to the recipients' logs.
LogWrites ==
    relayLog' = [d \in Sockets |->
                    IF Len(toClient'[d]) > Len(toClient[d])
                    THEN Append(relayLog[d], toClient'[d][Len(toClient'[d])])
                    ELSE relayLog[d]]

\* =================================================================
\* AudioServer::handleClientMessage: the table of client records
\* =================================================================

DpSockets == 1..NumDispatched

\* The AudioConfig invariant.
SampleRates == {8000, 16000, 22050, 44100, 48000, 88200, 96000}
FramesPerBuffer == {32, 64, 128, 256, 512, 1024}
AudioConfigValid(config) ==
    /\ config.sampleRate \in SampleRates
    /\ config.channels \in 1..8
    /\ config.bufferSize \in FramesPerBuffer

\* What AudioServer is constructed with, and addClient's buffer size.
DefaultSampleRate == 48000
DefaultChannels == 2
DefaultBufferSize == 256

\* The payload of the CLIENT_CONFIG message: the bytes of the struct of three
\* int32_t, cut to the size the message declares.
ConfigPayload(config, size) ==
    SubSeq(LE(config.sampleRate, 4) \o LE(config.channels, 4)
               \o LE(config.bufferSize, 4) \o <<0, 0, 0, 0>>, 1, size)

\* reinterpret_cast<const AudioConfig*>(message.data.data())
AudioConfigOf(data) ==
    [sampleRate |-> FromLE(SubSeq(data, 1, 4)),
     channels |-> FromLE(SubSeq(data, 5, 8)),
     bufferSize |-> FromLE(SubSeq(data, 9, 12))]

\* The configurations clients send, and the sizes they declare.
ConfigInputs ==
    { [sampleRate |-> 44100, channels |-> 1, bufferSize |-> 512],
      [sampleRate |-> 0, channels |-> 9, bufferSize |-> 100] }
ConfigSizes == {8, 12, 16}

\* AudioServer::addClient with the config fields.
addClientRecord(records, socket_fd) ==
    Append(records, [socket_fd |-> socket_fd, ready |-> FALSE,
                     sampleRate |-> DefaultSampleRate,
                     channels |-> DefaultChannels,
                     bufferSize |-> DefaultBufferSize])

\* Position of the record std::find_if finds for the socket, or 0.
FindRecord(records, socket_fd) ==
    IF \E i \in 1..Len(records) : records[i].socket_fd = socket_fd
    THEN Min({ i \in 1..Len(records) : records[i].socket_fd = socket_fd })
    ELSE 0

\* The CLIENT_CONFIG case of handleClientMessage.
storeConfig(records, socket_fd, message) ==
    LET i == FindRecord(records, socket_fd)
        config == AudioConfigOf(message.data)
    IN  IF message.size >= 12 /\ i # 0
        THEN [records EXCEPT ![i].sampleRate = config.sampleRate,
                             ![i].channels = config.channels,
                             ![i].bufferSize = config.bufferSize]
        ELSE records

DpInit ==
    /\ clientRecords = << >>
    /\ established = {}
    /\ lastConfig = [size |-> 0, config |-> [sampleRate |-> DefaultSampleRate,
                                             channels |-> DefaultChannels,
                                             bufferSize |-> DefaultBufferSize],
                     stored |-> FALSE]
    /\ lastWrites = [c \in DpSockets |-> 0]
    /\ hbInitiated = [c \in DpSockets |-> 0]
    /\ hbEchoes = [c \in DpSockets |-> 0]
    /\ hbToServer = [c \in DpSockets |-> 0]
    /\ hbToClient = [c \in DpSockets |-> 0]

\* NetworkManager::serverLoop accepts socket c and dispatches CONNECT.
DispatchAccept(c) ==
    /\ c \notin established
    /\ Len(clientRecords) < MaxRecords
    /\ established' = established \cup {c}
    /\ clientRecords' = addClientRecord(clientRecords, c)
    /\ UNCHANGED <<lastConfig, lastWrites, hbInitiated, hbEchoes, hbToServer,
                   hbToClient>>

\* handleClient reads a message of type CONNECT from socket c: addClient.
DispatchConnect(c) ==
    /\ c \in established
    /\ Len(clientRecords) < MaxRecords
    /\ clientRecords' = addClientRecord(clientRecords, c)
    /\ UNCHANGED <<established, lastConfig, lastWrites, hbInitiated, hbEchoes,
                   hbToServer, hbToClient>>

\* handleClient reads a message of type DISCONNECT from socket c: removeClient.
DispatchDisconnect(c) ==
    /\ c \in established
    /\ clientRecords' = SelectSeq(clientRecords, LAMBDA r : r.socket_fd # c)
    /\ UNCHANGED <<established, lastConfig, lastWrites, hbInitiated, hbEchoes,
                   hbToServer, hbToClient>>

\* handleClient reads a CLIENT_CONFIG message from socket c.
DispatchConfig(c, config, size) ==
    /\ c \in established
    /\ LET message == NmMessage(CLIENT_CONFIG, 0, ConfigPayload(config, size))
       IN  clientRecords' = storeConfig(clientRecords, c, message)
    /\ lastConfig' = [size |-> size, config |-> config,
                      stored |-> clientRecords' # clientRecords]
    /\ UNCHANGED <<established, lastWrites, hbInitiated, hbEchoes, hbToServer,
                   hbToClient>>

\* handleClient reads a CLIENT_READY message from socket c.
DispatchReady(c) ==
    /\ c \in established
    /\ LET i == FindRecord(clientRecords, c)
       IN  clientRecords' = IF i # 0 THEN [clientRecords EXCEPT ![i].ready = TRUE]
                            ELSE clientRecords
    /\ UNCHANGED <<established, lastConfig, lastWrites, hbInitiated, hbEchoes,
                   hbToServer, hbToClient>>

\* handleClient reads an AUDIO_DATA message from socket c:
\* broadcastAudioToOthers sends once for every record that passes its test.
DispatchAudio(c) ==
    /\ c \in established
    /\ lastWrites' = [d \in DpSockets |->
           Cardinality({ i \in 1..Len(clientRecords) :
                            /\ clientRecords[i].socket_fd = d
                            /\ isRecipient(clientRecords[i], c) })]
    /\ UNCHANGED <<clientRecords, established, lastConfig, hbInitiated, hbEchoes,
                   hbToServer, hbToClient>>

\* handleClient's receiveMessage fails: DISCONNECT is dispatched, the thread ends.
DispatchExit(c) ==
    /\ c \in established
    /\ established' = established \ {c}
    /\ clientRecords' = SelectSeq(clientRecords, LAMBDA r : r.socket_fd # c)
    /\ hbToServer' = [hbToServer EXCEPT ![c] = 0]
    /\ hbToClient' = [hbToClient EXCEPT ![c] = 0]
    /\ UNCHANGED <<lastConfig, lastWrites, hbInitiated, hbEchoes>>

\* The client of socket c begins a heartbeat exchange.
ClientHeartbeat(c) ==
    /\ c \in established
    /\ hbInitiated[c] = 0
    /\ hbInitiated' = [hbInitiated EXCEPT ![c] = 1]
    /\ hbToServer' = [hbToServer EXCEPT ![c] = @ + 1]
    /\ UNCHANGED <<clientRecords, established, lastConfig, lastWrites, hbEchoes,
                   hbToClient>>

\* The HEARTBEAT case of AudioServer::handleClientMessage:
\* network_manager_.sendMessage(message, client_socket).
DispatchHeartbeat(c) ==
    /\ c \in established
    /\ hbToServer[c] > 0
    /\ hbEchoes[c] < MaxEchoes
    /\ hbToServer' = [hbToServer EXCEPT ![c] = @ - 1]
    /\ hbToClient' = [hbToClient EXCEPT ![c] = @ + 1]
    /\ hbEchoes' = [hbEchoes EXCEPT ![c] = @ + 1]
    /\ UNCHANGED <<clientRecords, established, lastConfig, lastWrites, hbInitiated>>

\* The HEARTBEAT case of AudioClient::handleNetworkMessage: a HEARTBEAT
\* message is sent in answer.
ClientHeartbeatReply(c) ==
    /\ c \in established
    /\ hbToClient[c] > 0
    /\ hbToClient' = [hbToClient EXCEPT ![c] = @ - 1]
    /\ hbToServer' = [hbToServer EXCEPT ![c] = @ + 1]
    /\ UNCHANGED <<clientRecords, established, lastConfig, lastWrites, hbInitiated,
                   hbEchoes>>

\* =================================================================
\* AudioClient::stopAudio against the jitter thread's addPlaybackData
\* =================================================================

TdIdle == stopPc = "idle" /\ bufferPointer = "none" /\ wroteFreed = FALSE

\* The process goes on until a write to freed memory has crashed it.
Alive == jitterBufferThread_ # "crashed"

\* connect() and a startAudio() whose PortAudio calls succeed or not.
TeardownConnect ==
    /\ Alive /\ stopPc = "idle"
    /\ connect(TRUE)
    /\ UNCHANGED tdVars

TeardownStartAudio(initOk, recOk, playOk) ==
    /\ Alive /\ stopPc = "idle"
    /\ AudioClientStartAudio(initOk, recOk, playOk)
    /\ UNCHANGED tdVars

\* stopAudio: audio_processor_.stop(); audio_processor_.cleanup(), which
\* deletes playback_buffer_ and sets it to nullptr.
StopAudioCleanup ==
    /\ Alive /\ stopPc = "idle" /\ disconnectPc = "idle"
    /\ isAudioActive
    /\ recording_' = FALSE /\ playing_' = FALSE
    /\ playback_buffer_' = FALSE /\ initialized_' = FALSE
    /\ bufferPointer' = IF bufferPointer = "live" THEN "deleted" ELSE bufferPointer
    /\ stopPc' = "cleaned"
    /\ UNCHANGED <<connected_, isAudioActive, running_, jitterBufferRunning_,
                   network_thread_, jitterBufferThread_, disconnectPc, isConnected_,
                   inbound, serverClosed, lastCall>>
    /\ UNCHANGED wroteFreed

\* stopAudio: audio_active_ = false.
StopAudioDeactivate ==
    /\ Alive /\ stopPc = "cleaned"
    /\ isAudioActive' = FALSE
    /\ stopPc' = "idle"
    /\ lastCall' = [op |-> "stopAudio", ok |-> TRUE, ready |-> FALSE]
    /\ UNCHANGED <<connected_, running_, jitterBufferRunning_, network_thread_,
                   jitterBufferThread_, disconnectPc, recording_, playing_,
                   initialized_, playback_buffer_, isConnected_, inbound,
                   serverClosed>>
    /\ UNCHANGED <<bufferPointer, wroteFreed>>

\* jitterBufferLoop: the while test.
TeardownJitterBufferLoop ==
    /\ Alive
    /\ JitterBufferLoop
    /\ UNCHANGED tdVars

\* processJitterBuffer: if (!jitterBuffer_ || !audio_active_) return;
ProcessCheckActive ==
    /\ jitterBufferThread_ = "process"
    /\ JitterThreadTo(IF isAudioActive THEN "drain" ELSE "top")
    /\ UNCHANGED tdVars

\* processJitterBuffer past the check with no packet to play.
ProcessNoPacket ==
    /\ jitterBufferThread_ = "drain"
    /\ JitterThreadTo("top")
    /\ UNCHANGED tdVars

\* processJitterBuffer has a packet: AudioProcessor::addPlaybackData reads
\* playback_buffer_ and returns false when it is null.
AddPlaybackDataCheck ==
    /\ jitterBufferThread_ = "drain"
    /\ IF playback_buffer_
       THEN bufferPointer' = "live" /\ JitterThreadTo("write")
       ELSE UNCHANGED bufferPointer /\ JitterThreadTo("top")
    /\ UNCHANGED <<stopPc, wroteFreed>>

\* addPlaybackData: playback_buffer_->write(data, samples) through the pointer
\* read before. On a deleted buffer that is a use after free: the process
\* crashes, or it goes on with the heap written to.
AddPlaybackDataWrite(outcome) ==
    /\ jitterBufferThread_ = "write"
    /\ wroteFreed' = (wroteFreed \/ bufferPointer = "deleted")
    /\ bufferPointer' = "none"
    /\ JitterThreadTo(IF bufferPointer = "deleted" /\ outcome = "crash"
                      THEN "crashed" ELSE "top")
    /\ UNCHANGED stopPc

\* =================================================================
\* NetworkManager::sendMessage from several threads to one socket
\* =================================================================

\* The threads that write to the socket of one client on the server (two
\* handler threads relaying AUDIO_DATA of other clients, the client's own
\* handler thread echoing its HEARTBEAT) and those that write to the socket of
\* an AudioClient (the capture callback, the receive thread, the main thread).
ServerWriters == {"broadcast1", "broadcast2", "echo"}
ClientWriters == {"onAudioCaptured", "handleNetworkMessage", "startAudio"}
Writers == ServerWriters \cup ClientWriters
WriteSockets == {"server", "client"}
SocketOf(w) == IF w \in ServerWriters THEN "server" ELSE "client"

\* broadcastAudioToOthers calls sendMessage with clients_mutex_ held; no other
\* caller of sendMessage holds a lock.
HoldsTableMutex(w) == w \in {"broadcast1", "broadcast2"}

WrIdle ==
    /\ writerPc = [w \in Writers |-> "idle"]
    /\ totalSent = [w \in Writers |-> 0]
    /\ socketBytes = [s \in WriteSockets |-> << >>]
    /\ tableMutex = "free"

\* A thread calls sendMessage: serializeMessage, then sendRawData with
\* totalSent = 0.
SendMessageBegin(w) ==
    /\ writerPc[w] = "idle"
    /\ IF HoldsTableMutex(w)
       THEN tableMutex = "free" /\ tableMutex' = w
       ELSE UNCHANGED tableMutex
    /\ writerPc' = [writerPc EXCEPT ![w] = "send"]
    /\ UNCHANGED <<totalSent, socketBytes>>

\* One send() of sendRawData's loop: it takes sent bytes, from 1 to all that
\* are left; after the last byte sendRawData returns.
SendRawDataStep(w, sent) ==
    /\ writerPc[w] = "send"
    /\ sent <= FrameBytes - totalSent[w]
    /\ socketBytes' = [socketBytes EXCEPT ![SocketOf(w)] = @ \o [i \in 1..sent |-> w]]
    /\ totalSent' = [totalSent EXCEPT ![w] = @ + sent]
    /\ IF totalSent[w] + sent = FrameBytes
       THEN /\ writerPc' = [writerPc EXCEPT ![w] = "done"]
            /\ tableMutex' = IF HoldsTableMutex(w) THEN "free" ELSE tableMutex
       ELSE UNCHANGED <<writerPc, tableMutex>>

\* ------------------------------------------- RenderSource::resetJitterBuffer
\* sinceReset: resetJitterBuffer has returned and nothing was inserted into
\* jitterBuffer_ since.
RhIdle == sinceReset = FALSE

\* A step of any other method: an insertion into jitterBuffer_ ends the interval.
NoInsertion == sinceReset' = (sinceReset /\ DOMAIN jitterBuffer_' \subseteq DOMAIN jitterBuffer_)

\* resetJitterBuffer returns.
ResetReturns == sinceReset' = TRUE

\* ------------------------------------- AudioServer::stop, NetworkManager::stopServer
StSockets == 1..NumAccepted

\* AudioServer::start has returned: the accept thread is in accept().
StIdle ==
    /\ serverRunning = TRUE
    /\ serverSocket_ = "open"
    /\ serverStopPc = "running"
    /\ serverLoopPc = "accept"
    /\ acceptedSocket = 0
    /\ handleClientPc = [c \in StSockets |-> "none"]
    /\ activeSockets = {}
    /\ serverTable = {}
    /\ closeCount = [c \in StSockets |-> 0]
    /\ lateTouch = FALSE

\* closeSocket(SOCKET&) on a variable that holds descriptor c: the variable is
\* never INVALID_SOCKET at the three call sites, so closesocket(c) is called.
closeSocket(counts, c) == [counts EXCEPT ![c] = @ + 1]

\* A handler's call of messageHandler_ after AudioServer::stop has returned.
TouchAfterStop == lateTouch' = (lateTouch \/ serverStopPc = "returned")

\* AudioServer::stop, first lines, and the first line of stopServer: running_ = false.
StopBegin ==
    /\ serverStopPc = "running"
    /\ serverRunning' = FALSE
    /\ serverStopPc' = "closeClients"
    /\ UNCHANGED <<serverSocket_, serverLoopPc, acceptedSocket, handleClientPc,
                   activeSockets, serverTable, closeCount, lateTouch>>

\* stopServer under clientsMutex_: closeSocket on a copy of every element of
\* connectedClients_, then clear().
StopCloseClients ==
    /\ serverStopPc = "closeClients"
    /\ closeCount' = [c \in StSockets |->
                         IF c \in activeSockets THEN closeCount[c] + 1 ELSE closeCount[c]]
    /\ activeSockets' = {}
    /\ serverStopPc' = "closeServer"
    /\ UNCHANGED <<serverRunning, serverSocket_, serverLoopPc, acceptedSocket,
                   handleClientPc, serverTable, lateTouch>>

\* stopServer: closeSocket(serverSocket_).
StopCloseServer ==
    /\ serverStopPc = "closeServer"
    /\ serverSocket_' = "closed"
    /\ serverStopPc' = "join"
    /\ UNCHANGED <<serverRunning, serverLoopPc, acceptedSocket, handleClientPc,
                   activeSockets, serverTable, closeCount, lateTouch>>

\* stopServer: serverThread_.join() (clientHandlerThread_ is never started, the
\* handler threads are detached), then AudioServer::stop: clients_.clear().
StopJoin ==
    /\ serverStopPc = "join"
    /\ serverLoopPc = "exited"
    /\ serverTable' = {}
    /\ serverStopPc' = "returned"
    /\ UNCHANGED <<serverRunning, serverSocket_, serverLoopPc, acceptedSocket,
                   handleClientPc, activeSockets, closeCount, lateTouch>>

\* serverLoop: accept() returns a new connection.
ServerLoopAccept(c) ==
    /\ serverLoopPc = "accept"
    /\ serverSocket_ = "open"
    /\ handleClientPc[c] = "none"
    /\ closeCount[c] = 0
    /\ acceptedSocket' = c
    /\ serverLoopPc' = "push"
    /\ UNCHANGED <<serverRunning, serverSocket_, serverStopPc, handleClientPc,
                   activeSockets, serverTable, closeCount, lateTouch>>

\* serverLoop: push_back under clientsMutex_, start the handler thread, detach it.
ServerLoopPush ==
    /\ serverLoopPc = "push"
    /\ activeSockets' = activeSockets \cup {acceptedSocket}
    /\ handleClientPc' = [handleClientPc EXCEPT ![acceptedSocket] = "top"]
    /\ serverLoopPc' = "notify"
    /\ UNCHANGED <<serverRunning, serverSocket_, serverStopPc, acceptedSocket,
                   serverTable, closeCount, lateTouch>>

\* serverLoop: messageHandler_(CONNECT), which is AudioServer::addClient.
ServerLoopNotify ==
    /\ serverLoopPc = "notify"
    /\ serverTable' = serverTable \cup {acceptedSocket}
    /\ serverLoopPc' = "accept"
    /\ UNCHANGED <<serverRunning, serverSocket_, serverStopPc, acceptedSocket,
                   handleClientPc, activeSockets, closeCount, lateTouch>>

\* serverLoop: accept() fails on the closed socket, continue, while (running_) ends.
ServerLoopExit ==
    /\ serverLoopPc = "accept"
    /\ serverSocket_ = "closed"
    /\ ~serverRunning
    /\ serverLoopPc' = "exited"
    /\ UNCHANGED <<serverRunning, serverSocket_, serverStopPc, acceptedSocket,
                   handleClientPc, activeSockets, serverTable, closeCount, lateTouch>>

\* handleClient: while (running_).
HandleClientTop(c) ==
    /\ handleClientPc[c] = "top"
    /\ handleClientPc' = [handleClientPc EXCEPT ![c] =
                             IF serverRunning THEN "receive" ELSE "erase"]
    /\ UNCHANGED <<serverRunning, serverSocket_, serverStopPc, serverLoopPc,
                   acceptedSocket, activeSockets, serverTable, closeCount, lateTouch>>

\* handleClient: receiveMessage returns a message of the client, or fails: the
\* peer has gone (ok = FALSE) or the descriptor was closed under the recv.
HandleClientReceive(c, ok) ==
    /\ handleClientPc[c] = "receive"
    /\ handleClientPc' = [handleClientPc EXCEPT ![c] =
                             IF ok /\ closeCount[c] = 0 THEN "dispatch" ELSE "erase"]
    /\ UNCHANGED <<serverRunning, serverSocket_, serverStopPc, serverLoopPc,
                   acceptedSocket, activeSockets, serverTable, closeCount, lateTouch>>

\* handleClient: messageHandler_(message), AudioServer::handleClientMessage
\* under clients_mutex_; a CONNECT adds a record, the other types keep the set.
HandleClientDispatch(c, type) ==
    /\ handleClientPc[c] = "dispatch"
    /\ serverTable' = IF type = "CONNECT" THEN serverTable \cup {c} ELSE serverTable
    /\ TouchAfterStop
    /\ handleClientPc' = [handleClientPc EXCEPT ![c] = "top"]
    /\ UNCHANGED <<serverRunning, serverSocket_, serverStopPc, serverLoopPc,
                   acceptedSocket, activeSockets, closeCount>>

\* handleClient after the loop: erase the socket from connectedClients_.
HandleClientErase(c) ==
    /\ handleClientPc[c] = "erase"
    /\ activeSockets' = activeSockets \ {c}
    /\ handleClientPc' = [handleClientPc EXCEPT ![c] = "notify"]
    /\ UNCHANGED <<serverRunning, serverSocket_, serverStopPc, serverLoopPc,
                   acceptedSocket, serverTable, closeCount, lateTouch>>

\* handleClient: messageHandler_(DISCONNECT), which is AudioServer::removeClient.
HandleClientNotify(c) ==
    /\ handleClientPc[c] = "notify"
    /\ serverTable' = serverTable \ {c}
    /\ TouchAfterStop
    /\ handleClientPc' = [handleClientPc EXCEPT ![c] = "close"]
    /\ UNCHANGED <<serverRunning, serverSocket_, serverStopPc, serverLoopPc,
                   acceptedSocket, activeSockets, closeCount>>

\* handleClient: closeSocket(clientSocket) on its own copy of the descriptor.
HandleClientClose(c) ==
    /\ handleClientPc[c] = "close"
    /\ closeCount' = closeSocket(closeCount, c)
    /\ handleClientPc' = [handleClientPc EXCEPT ![c] = "exited"]
    /\ UNCHANGED <<serverRunning, serverSocket_, serverStopPc, serverLoopPc,
                   acceptedSocket, activeSockets, serverTable, lateTouch>>

\* ------------------------------------------------------------------ RenderSink
\* RenderSink initialised and playing in push mode (no audioRequestCallback_).
RkInit ==
    /\ audioQueue_ = << >>
    /\ queueSize_ = 0
    /\ totalDroppedSamples_ = 0
    /\ currentBufferPosition_ = 0
    /\ evictedSamples = 0
    /\ frontOfEmpty = FALSE

RECURSIVE QueuedSamples(_)
QueuedSamples(queue) ==
    IF queue = << >> THEN 0 ELSE Head(queue) + QueuedSamples(Tail(queue))

\* The eviction loop of queueAudioData: queueSize_ -= front().size(), pop(),
\* totalDroppedSamples_ += front().size(). The second front() is the element
\* behind the popped one; on the emptied queue its value is any number (garbage).
RECURSIVE EvictOldest(_, _, _)
EvictOldest(st, samples, garbage) ==
    IF st.queue # << >> /\ st.size + samples > MaxQueueSize
    THEN LET popped == Tail(st.queue)
         IN  EvictOldest([queue   |-> popped,
                          size    |-> st.size - Head(st.queue),
                          dropped |-> st.dropped + (IF popped = << >> THEN garbage
                                                    ELSE Head(popped)),
                          evicted |-> st.evicted + Head(st.queue),
                          empty   |-> st.empty \/ popped = << >>],
                         samples, garbage)
    ELSE st

\* queueAudioData(audioData, samples, timestamp), samples > 0.
queueAudioData(samples, garbage) ==
    LET st == EvictOldest([queue |-> audioQueue_, size |-> queueSize_,
                           dropped |-> totalDroppedSamples_,
                           evicted |-> evictedSamples, empty |-> frontOfEmpty],
                          samples, garbage)
    IN  /\ st.dropped <= MaxDropped
        /\ st.evicted <= MaxDropped
        /\ audioQueue_' = Append(st.queue, samples)
        /\ queueSize_' = st.size + samples
        /\ totalDroppedSamples_' = st.dropped
        /\ evictedSamples' = st.evicted
        /\ frontOfEmpty' = st.empty
        /\ UNCHANGED currentBufferPosition_

\* The copy loop of fillOutputBuffer and of processPlaybackQueue: a front element
\* that fits is popped, a longer one loses its first `remaining` samples.
RECURSIVE TakeSamples(_, _)
TakeSamples(st, remaining) ==
    IF remaining > 0 /\ st.queue # << >>
    THEN IF Head(st.queue) <= remaining
         THEN TakeSamples([queue |-> Tail(st.queue), size |-> st.size - Head(st.queue)],
                          remaining - Head(st.queue))
         ELSE [queue |-> <<Head(st.queue) - remaining>> \o Tail(st.queue),
               size  |-> st.size - remaining]
    ELSE st

\* fillOutputBuffer(outputBuffer, framesPerBuffer), totalSamples asked for.
fillOutputBuffer(totalSamples) ==
    LET st == TakeSamples([queue |-> audioQueue_, size |-> queueSize_], totalSamples)
    IN  /\ audioQueue_' = st.queue
        /\ queueSize_' = st.size
        /\ UNCHANGED <<totalDroppedSamples_, currentBufferPosition_, evictedSamples,
                       frontOfEmpty>>

\* processPlaybackQueue: fill what is left of currentBuffer_.
processPlaybackQueue ==
    LET st == TakeSamples([queue |-> audioQueue_, size |-> queueSize_],
                          SinkBuffer - currentBufferPosition_)
    IN  /\ audioQueue_' = st.queue
        /\ queueSize_' = st.size
        /\ currentBufferPosition_' = currentBufferPosition_ + (queueSize_ - st.size)
        /\ UNCHANGED <<totalDroppedSamples_, evictedSamples, frontOfEmpty>>

\* clearAudioQueue.
clearAudioQueue ==
    /\ audioQueue_' = << >>
    /\ queueSize_' = 0
    /\ currentBufferPosition_' = 0
    /\ UNCHANGED <<totalDroppedSamples_, evictedSamples, frontOfEmpty>>

\* =================================================================
\* Specifications
\* =================================================================

JbNext ==
    \/ (\E seq \in JbSeqs : addPacket(seq)) /\ JbOnly
    \/ getPacket /\ JbOnly
    \/ clear /\ JbOnly
    \/ (\E size \in 2..JbMaxCapacity : setMaxBufferSize(size)) /\ JbOnly
    \/ (\E minSize \in 2..3 : setMinBufferSize(minSize)) /\ JbOnly

RsNext ==
    \/ (\E seq \in Seqs, dataOk \in BOOLEAN : addReceivedPacket(seq, dataOk)) /\ RsOnly
    \/ getAudioData /\ RsOnly
    \/ jitterBufferWorkerTake /\ RsOnly
    \/ jitterBufferWorkerRender /\ RsOnly
    \/ resetJitterBuffer /\ UNCHANGED isReceiving_ /\ RsOnly
    \/ startReceiving /\ RsOnly
    \/ stopReceiving /\ RsOnly
    \/ (\E cfg \in RsConfigs : configureJitterBuffer(cfg)) /\ RsOnly
    \/ RenderSourceProcessBegin /\ RsOnly
    \/ (\E relock \in {"deadlock", "granted"} : RenderSourceProcessScan(relock)) /\ RsOnly

\* RenderSource constructed and initialised, never started.
RsIdle == RsInit /\ enablePacketLossRecovery

InitRender == RsInit /\ JbInit /\ CodecIdle /\ SrvInit /\ RxIdle /\ AbInit /\ AcInit /\ AdIdle /\ RelayIdle /\ CsIdle /\ InIdle /\ CbIdle /\ DpInit /\ TdIdle /\ WrIdle /\ RhIdle /\ StIdle /\ RkInit
SpecRender == InitRender /\ [][RsNext]_vars

InitJitter == RsIdle /\ JbInit /\ CodecIdle /\ SrvInit /\ RxIdle /\ AbInit /\ AcInit /\ AdIdle /\ RelayIdle /\ CsIdle /\ InIdle /\ CbIdle /\ DpInit /\ TdIdle /\ WrIdle /\ RhIdle /\ StIdle /\ RkInit
SpecJitter == InitJitter /\ [][JbNext]_vars

CodecNext ==
    \/ MessageSerialize /\ CodecOnly
    \/ MessageDeserialize /\ CodecOnly
    \/ NmSerialize /\ CodecOnly
    \/ NmDeserialize /\ CodecOnly

InitCodec == RsIdle /\ JbInit /\ CodecInit /\ SrvInit /\ RxIdle /\ AbInit /\ AcInit /\ AdIdle /\ RelayIdle /\ CsIdle /\ InIdle /\ CbIdle /\ DpInit /\ TdIdle /\ WrIdle /\ RhIdle /\ StIdle /\ RkInit
SpecCodec == InitCodec /\ [][CodecNext]_vars

SrvNext ==
    \/ Accept /\ SrvOnly
    \/ AcceptNotify /\ SrvOnly
    \/ (\E c \in Sockets : startAudio(c)) /\ SrvOnly
    \/ (\E c \in Sockets : onAudioCaptured(c)) /\ SrvOnly
    \/ (\E c \in Sockets : ClientReceive(c)) /\ SrvOnly
    \/ (\E c \in Sockets : disconnect(c)) /\ SrvOnly
    \/ (\E c \in Sockets : HandleReady(c)) /\ SrvOnly
    \/ (\E c \in Sockets : HandleAudio(c)) /\ SrvOnly
    \/ (\E c \in Sockets : BroadcastStep(c)) /\ SrvOnly
    \/ (\E c \in Sockets : BroadcastEnd(c)) /\ SrvOnly
    \/ (\E c \in Sockets : HandlerExit(c)) /\ SrvOnly

Init == RsIdle /\ JbInit /\ CodecIdle /\ SrvInit /\ RxIdle /\ AbInit /\ AcInit /\ AdIdle /\ RelayIdle /\ CsIdle /\ InIdle /\ CbIdle /\ DpInit /\ TdIdle /\ WrIdle /\ RhIdle /\ StIdle /\ RkInit
Spec == Init /\ [][SrvNext]_vars

RelayNext ==
    \/ Accept /\ LogWrites /\ RelayOnly
    \/ AcceptNotify /\ LogWrites /\ RelayOnly
    \/ (\E c \in Sockets : startAudio(c)) /\ LogWrites /\ RelayOnly
    \/ (\E c \in Sockets : onAudioCaptured(c)) /\ LogWrites /\ RelayOnly
    \/ (\E c \in Sockets : ClientReceive(c)) /\ LogWrites /\ RelayOnly
    \/ (\E c \in Sockets : disconnect(c)) /\ LogWrites /\ RelayOnly
    \/ (\E c \in Sockets : HandleReady(c)) /\ LogWrites /\ RelayOnly
    \/ (\E c \in Sockets : HandleAudio(c)) /\ LogWrites /\ RelayOnly
    \/ (\E c \in Sockets : BroadcastStep(c)) /\ LogWrites /\ RelayOnly
    \/ (\E c \in Sockets : BroadcastEnd(c)) /\ LogWrites /\ RelayOnly
    \/ (\E c \in Sockets : HandlerExit(c)) /\ LogWrites /\ RelayOnly

InitRelay == RsIdle /\ JbInit /\ CodecIdle /\ SrvInit /\ RxIdle /\ AbInit /\ AcInit /\ AdIdle /\ RelayIdle /\ CsIdle /\ InIdle /\ CbIdle /\ DpInit /\ TdIdle /\ WrIdle /\ RhIdle /\ StIdle /\ RkInit
SpecRelay == InitRelay /\ [][RelayNext]_vars

CsNext ==
    \/ /\ \E data \in Payloads \ {<< >>}, timestamp \in Timestamps, pad \in Paddings :
              sendAudioData(data, timestamp, pad)
       /\ CsOnly
    \/ /\ \E timestamp \in Timestamps, pad \in Paddings :
              CaptureSinkProcess(timestamp, pad)
       /\ CsOnly

InitCapture == RsIdle /\ JbInit /\ CodecIdle /\ SrvInit /\ RxIdle /\ AbInit /\ AcInit /\ AdIdle /\ RelayIdle /\ CsIdle /\ InIdle /\ CbIdle /\ DpInit /\ TdIdle /\ WrIdle /\ RhIdle /\ StIdle /\ RkInit
SpecCapture == InitCapture /\ [][CsNext]_vars

InNext ==
    \/ (\E ok \in BOOLEAN : InboundConnect(ok)) /\ InOnly
    \/ (\E initOk, recOk, playOk \in BOOLEAN :
            InboundStartAudio(initOk, recOk, playOk)) /\ InOnly
    \/ InboundServerSends /\ InOnly
    \/ InboundNetworkLoopTop /\ InOnly
    \/ InboundJitterBufferLoop /\ InOnly
    \/ (\E sender \in Senders, type \in {AUDIO_DATA, HEARTBEAT}, size \in 0..1 :
            handleNetworkMessage(sender, type, size)) /\ InOnly
    \/ ProcessJitterBufferBegin /\ InOnly
    \/ ProcessJitterBufferDrain /\ InOnly
    \/ ProcessJitterBufferEnd /\ InOnly
    \/ Tick /\ InOnly

InitInbound == RsIdle /\ JbInit /\ CodecIdle /\ SrvInit /\ RxIdle /\ AbInit /\ AcInit /\ AdIdle /\ RelayIdle /\ CsIdle /\ InIdle /\ CbIdle /\ DpInit /\ TdIdle /\ WrIdle /\ RhIdle /\ StIdle /\ RkInit
SpecInbound == InitInbound /\ [][InNext]_vars

RxNext ==
    \/ MessageDeserializeCall /\ RxOnly
    \/ RenderSourceReceiveMessage /\ RxOnly
    \/ NetworkManagerReceiveMessage /\ RxOnly

InitReceive == RsIdle /\ JbInit /\ CodecIdle /\ SrvInit /\ RxInit /\ AbInit /\ AcInit /\ AdIdle /\ RelayIdle /\ CsIdle /\ InIdle /\ CbIdle /\ DpInit /\ TdIdle /\ WrIdle /\ RhIdle /\ StIdle /\ RkInit
SpecReceive == InitReceive /\ [][RxNext]_vars

AbNext ==
    \/ (\E samples \in 1..AbMaxRequest : addPlaybackData(samples)) /\ AbOnly
    \/ (\E samplesNeeded \in 1..AbMaxRequest : playCallback(samplesNeeded)) /\ AbOnly
    \/ AudioBufferClear /\ AbOnly

InitBuffer == RsIdle /\ JbInit /\ CodecIdle /\ SrvInit /\ RxIdle /\ AbInit /\ AcInit /\ AdIdle /\ RelayIdle /\ CsIdle /\ InIdle /\ CbIdle /\ DpInit /\ TdIdle /\ WrIdle /\ RhIdle /\ StIdle /\ RkInit
SpecBuffer == InitBuffer /\ [][AbNext]_vars

AdNext ==
    \/ (\E jitter \in JitterLevels : adaptiveBufferManagement(jitter)) /\ AdOnly
    \/ /\ \E cfg \in AdaptConfigs : configureJitterBuffer(cfg)
       /\ adaptedFrom' = NoSeq
       /\ UNCHANGED averageJitter_
       /\ AdOnly

InitAdapt == RsIdle /\ JbInit /\ CodecIdle /\ SrvInit /\ RxIdle /\ AbInit /\ AcInit /\ AdIdle /\ RelayIdle /\ CsIdle /\ InIdle /\ CbIdle /\ DpInit /\ TdIdle /\ WrIdle /\ RhIdle /\ StIdle /\ RkInit
SpecAdapt == InitAdapt /\ [][AdNext]_vars

AcNext ==
    \/ (\E ok \in BOOLEAN : connect(ok)) /\ AcOnly
    \/ (\E initOk, recOk, playOk \in BOOLEAN :
            AudioClientStartAudio(initOk, recOk, playOk)) /\ AcOnly
    \/ AudioClientStopAudio /\ AcOnly
    \/ DisconnectBegin /\ AcOnly
    \/ DisconnectJoinNetwork /\ AcOnly
    \/ DisconnectJoinJitter /\ AcOnly
    \/ NetworkLoopTop /\ AcOnly
    \/ NetworkLoopReceive /\ AcOnly
    \/ NetworkLoopFail /\ AcOnly
    \/ JitterBufferLoop /\ AcOnly
    \/ processJitterBuffer /\ AcOnly
    \/ ServerSends /\ AcOnly
    \/ ServerCloses /\ AcOnly

CbNext ==
    \/ (\E ok \in BOOLEAN : CallbackConnect(ok)) /\ CbOnly
    \/ (\E initOk, recOk, playOk \in BOOLEAN :
            StartAudioStreams(initOk, recOk, playOk)) /\ CbOnly
    \/ StartAudioSendReady /\ CbOnly
    \/ StartAudioActivate /\ CbOnly
    \/ CallbackStopAudio /\ CbOnly
    \/ CallbackDisconnectBegin /\ CbOnly
    \/ CallbackDisconnectJoinNetwork /\ CbOnly
    \/ CallbackDisconnectJoinJitter /\ CbOnly
    \/ CallbackNetworkLoopTop /\ CbOnly
    \/ (\E type \in {AUDIO_DATA, HEARTBEAT} : CallbackNetworkLoopReceive(type)) /\ CbOnly
    \/ CallbackNetworkLoopFail /\ CbOnly
    \/ CallbackJitterBufferLoop /\ CbOnly
    \/ CallbackProcessNothing /\ CbOnly
    \/ AddPlaybackDataLock /\ CbOnly
    \/ AddPlaybackDataUnlock /\ CbOnly
    \/ OnAudioCapturedBegin /\ CbOnly
    \/ OnAudioCapturedSend /\ CbOnly
    \/ PlayCallbackBegin /\ CbOnly
    \/ AudioBufferReadLock /\ CbOnly
    \/ AudioBufferReadUnlock /\ CbOnly
    \/ ServerReads /\ CbOnly
    \/ (ServerSends /\ UNCHANGED cbVars) /\ CbOnly
    \/ (ServerCloses /\ UNCHANGED cbVars) /\ CbOnly

InitCallbacks == RsIdle /\ JbInit /\ CodecIdle /\ SrvInit /\ RxIdle /\ AbInit /\ AcInit /\ AdIdle /\ RelayIdle /\ CsIdle /\ InIdle /\ CbIdle /\ DpInit /\ TdIdle /\ WrIdle /\ RhIdle /\ StIdle /\ RkInit
SpecCallbacks == InitCallbacks /\ [][CbNext]_vars

\* The threads and the callbacks run; what the user and the server do is up to
\* them.
CbFairness ==
    /\ WF_vars(StartAudioSendReady /\ CbOnly)
    /\ WF_vars(StartAudioActivate /\ CbOnly)
    /\ WF_vars(CallbackDisconnectJoinNetwork /\ CbOnly)
    /\ WF_vars(CallbackDisconnectJoinJitter /\ CbOnly)
    /\ WF_vars(CallbackNetworkLoopTop /\ CbOnly)
    /\ WF_vars((\E type \in {AUDIO_DATA, HEARTBEAT} : CallbackNetworkLoopReceive(type)) /\ CbOnly)
    /\ WF_vars(CallbackNetworkLoopFail /\ CbOnly)
    /\ WF_vars(CallbackJitterBufferLoop /\ CbOnly)
    /\ WF_vars((CallbackProcessNothing \/ AddPlaybackDataLock) /\ CbOnly)
    /\ WF_vars(AddPlaybackDataUnlock /\ CbOnly)
    /\ WF_vars(OnAudioCapturedBegin /\ CbOnly)
    /\ WF_vars(OnAudioCapturedSend /\ CbOnly)
    /\ WF_vars(PlayCallbackBegin /\ CbOnly)
    /\ WF_vars(AudioBufferReadLock /\ CbOnly)
    /\ WF_vars(AudioBufferReadUnlock /\ CbOnly)

SpecCallbacksFair == SpecCallbacks /\ CbFairness

DpNext ==
    \/ (\E c \in DpSockets : DispatchAccept(c)) /\ DpOnly
    \/ (\E c \in DpSockets : DispatchConnect(c)) /\ DpOnly
    \/ (\E c \in DpSockets : DispatchDisconnect(c)) /\ DpOnly
    \/ (\E c \in DpSockets, config \in ConfigInputs, size \in ConfigSizes :
            DispatchConfig(c, config, size)) /\ DpOnly
    \/ (\E c \in DpSockets : DispatchReady(c)) /\ DpOnly
    \/ (\E c \in DpSockets : DispatchAudio(c)) /\ DpOnly
    \/ (\E c \in DpSockets : DispatchExit(c)) /\ DpOnly

InitDispatch == RsIdle /\ JbInit /\ CodecIdle /\ SrvInit /\ RxIdle /\ AbInit /\ AcInit /\ AdIdle /\ RelayIdle /\ CsIdle /\ InIdle /\ CbIdle /\ DpInit /\ TdIdle /\ WrIdle /\ RhIdle /\ StIdle /\ RkInit
SpecDispatch == InitDispatch /\ [][DpNext]_vars

\* The heartbeat exchange between the server and its AudioClients.
HbNext ==
    \/ (\E c \in DpSockets : DispatchAccept(c)) /\ DpOnly
    \/ (\E c \in DpSockets : DispatchExit(c)) /\ DpOnly
    \/ (\E c \in DpSockets : ClientHeartbeat(c)) /\ DpOnly
    \/ (\E c \in DpSockets : DispatchHeartbeat(c)) /\ DpOnly
    \/ (\E c \in DpSockets : ClientHeartbeatReply(c)) /\ DpOnly

InitHeartbeat == RsIdle /\ JbInit /\ CodecIdle /\ SrvInit /\ RxIdle /\ AbInit /\ AcInit /\ AdIdle /\ RelayIdle /\ CsIdle /\ InIdle /\ CbIdle /\ DpInit /\ TdIdle /\ WrIdle /\ RhIdle /\ StIdle /\ RkInit
SpecHeartbeat == InitHeartbeat /\ [][HbNext]_vars

TdNext ==
    \/ TeardownConnect /\ TdOnly
    \/ (\E initOk, recOk, playOk \in BOOLEAN :
            TeardownStartAudio(initOk, recOk, playOk)) /\ TdOnly
    \/ StopAudioCleanup /\ TdOnly
    \/ StopAudioDeactivate /\ TdOnly
    \/ TeardownJitterBufferLoop /\ TdOnly
    \/ ProcessCheckActive /\ TdOnly
    \/ ProcessNoPacket /\ TdOnly
    \/ AddPlaybackDataCheck /\ TdOnly
    \/ (\E outcome \in {"crash", "continue"} : AddPlaybackDataWrite(outcome)) /\ TdOnly
    \/ (Alive /\ NetworkLoopTop /\ UNCHANGED tdVars) /\ TdOnly
    \/ (Alive /\ NetworkLoopReceive /\ UNCHANGED tdVars) /\ TdOnly
    \/ (Alive /\ ServerSends /\ UNCHANGED tdVars) /\ TdOnly

InitTeardown == RsIdle /\ JbInit /\ CodecIdle /\ SrvInit /\ RxIdle /\ AbInit /\ AcInit /\ AdIdle /\ RelayIdle /\ CsIdle /\ InIdle /\ CbIdle /\ DpInit /\ TdIdle /\ WrIdle /\ RhIdle /\ StIdle /\ RkInit
SpecTeardown == InitTeardown /\ [][TdNext]_vars

WrNext ==
    \/ (\E w \in Writers : SendMessageBegin(w)) /\ WrOnly
    \/ (\E w \in Writers, sent \in 1..FrameBytes : SendRawDataStep(w, sent)) /\ WrOnly

InitWrite == RsIdle /\ JbInit /\ CodecIdle /\ SrvInit /\ RxIdle /\ AbInit /\ AcInit /\ AdIdle /\ RelayIdle /\ CsIdle /\ InIdle /\ CbIdle /\ DpInit /\ TdIdle /\ WrIdle /\ RhIdle /\ StIdle /\ RkInit
SpecWrite == InitWrite /\ [][WrNext]_vars

ResetNext ==
    \/ (\E seq \in Seqs, dataOk \in BOOLEAN : addReceivedPacket(seq, dataOk)) /\ NoInsertion /\ RhOnly
    \/ getAudioData /\ NoInsertion /\ RhOnly
    \/ jitterBufferWorkerTake /\ NoInsertion /\ RhOnly
    \/ jitterBufferWorkerRender /\ NoInsertion /\ RhOnly
    \/ resetJitterBuffer /\ UNCHANGED isReceiving_ /\ ResetReturns /\ RhOnly
    \/ startReceiving /\ ResetReturns /\ RhOnly
    \/ stopReceiving /\ NoInsertion /\ RhOnly
    \/ (\E cfg \in RsConfigs : configureJitterBuffer(cfg)) /\ NoInsertion /\ RhOnly
    \/ RenderSourceProcessBegin /\ NoInsertion /\ RhOnly
    \/ (\E relock \in {"deadlock", "granted"} : RenderSourceProcessScan(relock)) /\ NoInsertion /\ RhOnly

InitReset == RsInit /\ JbInit /\ CodecIdle /\ SrvInit /\ RxIdle /\ AbInit /\ AcInit /\ AdIdle /\ RelayIdle /\ CsIdle /\ InIdle /\ CbIdle /\ DpInit /\ TdIdle /\ WrIdle /\ RhIdle /\ StIdle /\ RkInit
SpecReset == InitReset /\ [][ResetNext]_vars

StNext ==
    \/ StopBegin /\ StOnly
    \/ StopCloseClients /\ StOnly
    \/ StopCloseServer /\ StOnly
    \/ StopJoin /\ StOnly
    \/ (\E c \in StSockets : ServerLoopAccept(c)) /\ StOnly
    \/ ServerLoopPush /\ StOnly
    \/ ServerLoopNotify /\ StOnly
    \/ ServerLoopExit /\ StOnly
    \/ (\E c \in StSockets : HandleClientTop(c)) /\ StOnly
    \/ (\E c \in StSockets, ok \in BOOLEAN : HandleClientReceive(c, ok)) /\ StOnly
    \/ (\E c \in StSockets, type \in {"CONNECT", "CLIENT_READY"} :
            HandleClientDispatch(c, type)) /\ StOnly
    \/ (\E c \in StSockets : HandleClientErase(c)) /\ StOnly
    \/ (\E c \in StSockets : HandleClientNotify(c)) /\ StOnly
    \/ (\E c \in StSockets : HandleClientClose(c)) /\ StOnly

InitStop == RsIdle /\ JbInit /\ CodecIdle /\ SrvInit /\ RxIdle /\ AbInit /\ AcInit /\ AdIdle /\ RelayIdle /\ CsIdle /\ InIdle /\ CbIdle /\ DpInit /\ TdIdle /\ WrIdle /\ RhIdle /\ StIdle /\ RkInit
SpecStop == InitStop /\ [][StNext]_vars

RkNext ==
    \/ (\E samples \in 1..MaxChunk, garbage \in 0..MaxChunk :
            queueAudioData(samples, garbage)) /\ RkOnly
    \/ (\E totalSamples \in 1..MaxOutput : fillOutputBuffer(totalSamples)) /\ RkOnly
    \/ processPlaybackQueue /\ RkOnly
    \/ clearAudioQueue /\ RkOnly

InitSink == RsIdle /\ JbInit /\ CodecIdle /\ SrvInit /\ RxIdle /\ AbInit /\ AcInit /\ AdIdle /\ RelayIdle /\ CsIdle /\ InIdle /\ CbIdle /\ DpInit /\ TdIdle /\ WrIdle /\ RhIdle /\ StIdle /\ RkInit
SpecSink == InitSink /\ [][RkNext]_vars

InitClient == RsIdle /\ JbInit /\ CodecIdle /\ SrvInit /\ RxIdle /\ AbInit /\ AcInit /\ AdIdle /\ RelayIdle /\ CsIdle /\ InIdle /\ CbIdle /\ DpInit /\ TdIdle /\ WrIdle /\ RhIdle /\ StIdle /\ RkInit
SpecClient == InitClient /\ [][AcNext]_vars

\* The client's threads keep running, and a call the main thread is in goes
\* on when it can; the server owes the client nothing.
AcFairness ==
    /\ WF_vars(DisconnectJoinNetwork /\ AcOnly)
    /\ WF_vars(DisconnectJoinJitter /\ AcOnly)
    /\ WF_vars(NetworkLoopTop /\ AcOnly)
    /\ WF_vars(NetworkLoopReceive /\ AcOnly)
    /\ WF_vars(NetworkLoopFail /\ AcOnly)
    /\ WF_vars(JitterBufferLoop /\ AcOnly)
    /\ WF_vars(processJitterBuffer /\ AcOnly)

SpecClientFair == SpecClient /\ AcFairness

\* The worker thread loops for as long as the object lives, and the host calls
\* getAudioData and RenderSourceProcess once per frame.
RsFairness ==
    /\ WF_vars(jitterBufferWorkerTake /\ RsOnly)
    /\ WF_vars(jitterBufferWorkerRender /\ RsOnly)
    /\ WF_vars(getAudioData /\ RsOnly)
    /\ WF_vars(RenderSourceProcessBegin /\ RsOnly)
    /\ WF_vars((\E relock \in {"deadlock", "granted"} : RenderSourceProcessScan(relock))
               /\ RsOnly)

SpecRenderFair == SpecRender /\ RsFairness

\* =================================================================
\* Claims
\* =================================================================

\* C1: the sequence numbers of the packets emitted by drain are strictly
\* increasing: no packet is emitted before a packet with a lower sequence
\* number that is also emitted (JitterBuffer::getPacket). Stated for arrivals
\* with distinct sequence numbers, where a repeat cannot be the cause.
C1_DrainStrictlyIncreasing ==
    NoRepeats(jbArrived) => StrictlyIncreasing(SeqNumbers(jbRendered))

\* A silence packet for sequence s has been emitted by a drain.
SilenceRendered(s) ==
    \E i \in 1..Len(rsRendered) : rsRendered[i] = generateSilencePacket(s)

\* The drain is waiting for s, which is not resident, while a higher sequence
\* has been received, with loss concealment on and the receiver running.
LossPending(s) ==
    /\ enablePacketLossRecovery
    /\ isReceiving_
    /\ expectedSequenceNumber_ = s
    /\ s < highestReceivedSequence_
    /\ s \notin DOMAIN jitterBuffer_
    /\ workerPacket = NoPacket

\* C3: when the expected sequence is missing while a higher one has been
\* received and loss concealment is enabled, the drain eventually emits a
\* silence packet for it (or the wait ends some other way: the packet arrives,
\* the session is reset or stopped); the drain never stalls forever on a
\* missing sequence.
C3_LossNeverStallsDrain ==
    \A s \in Seqs :
        [](LossPending(s) =>
            <>(SilenceRendered(s) \/ ~LossPending(s)))

\* C4: however often one sequence number is inserted, at most one received
\* packet with that sequence number is ever emitted by drain.
C4_DuplicateEmittedOnce ==
    \A i, j \in 1..Len(jbRendered) :
        (i # j /\ jbRendered[i].data = "pcm" /\ jbRendered[j].data = "pcm")
            => jbRendered[i].sequenceNumber # jbRendered[j].sequenceNumber

\* C5: inserting a packet whose sequence is below expected, after the drain has
\* advanced past it, leaves the packet out of the store and increases dropped
\* by exactly one.
C5_LateInsertDropped ==
    [][\A seq \in Seqs :
         ( /\ addReceivedPacket(seq, TRUE)
           /\ seq < expectedSequenceNumber_
           /\ \E i \in 1..Len(rsRendered) : rsRendered[i].sequenceNumber >= seq )
         => ( /\ seq \notin DOMAIN jitterBuffer_'
              /\ totalPacketsDropped_' = totalPacketsDropped_ + 1 )]_vars

\* C6: in every reachable state the number of resident packets is at most
\* ceil(max_ms / packet_interval_ms).
C6_ResidentSizeBounded ==
    Cardinality(DOMAIN jitterBuffer_) <= CeilDiv(adaptiveMaxBufferMs_, PacketIntervalMs)

\* The arrivals so far are the sequences 0..N-1, each exactly once, in any order.
ArrivedIsPermutation ==
    /\ NoRepeats(jbArrived)
    /\ \A i \in 1..Len(jbArrived) : jbArrived[i] < Len(jbArrived)

\* C7: when the arrivals are a permutation of 0..N-1, no silence packet is
\* resident or emitted for a sequence whose received packet arrived, and the
\* packets emitted are received packets in increasing sequence order.
C7_ReorderedArrivalNoSilence ==
    ArrivedIsPermutation =>
        /\ \A s \in JbSeqs : s < Len(jbArrived) => buffer_[JbPacket(s, "zeros")] = 0
        /\ \A i \in 1..Len(jbRendered) : jbRendered[i].data = "pcm"
        /\ StrictlyIncreasing(SeqNumbers(jbRendered))

\* The sender's packets of this session arrived in order, starting at 0.
ArrivedInOrderFromZero == \A i \in 1..Len(rsArrived) : rsArrived[i] = i - 1

\* C8: with a sender that starts at sequence 0 and a fresh or reset receiver,
\* the drain emits sequence 0 first and then the following sequences in order,
\* all of them real packets.
C8_FirstEmittedIsSequenceZero ==
    ArrivedInOrderFromZero =>
        \A i \in 1..Len(rsRendered) : rsRendered[i] = RsPacket(i - 1, "pcm")

\* The message a broadcast of socket c is relaying.
Relayed(c) == receiveMessage(handlerFrame[c])

\* C2: while the server relays an AUDIO_DATA message received from socket c,
\* every frame it has written is byte-identical to the frame c sent (same
\* type, size, timestamp and payload), was written to a socket other than c
\* whose record is ready, and every other ready record the loop has passed has
\* got its copy unless send() on it failed; no client ever finds its own audio
\* on its socket.
C2_BroadcastCopiesToOthers ==
    /\ \A c \in Sockets : handlerPc[c] = "broadcast" =>
          /\ Relayed(c).type = AUDIO_DATA
          /\ \A w \in broadcastWrote[c] :
                /\ w.to # c
                /\ w.frame = handlerFrame[c]
                /\ deserializeMessage(w.frame) = [ok |-> TRUE, decoded |-> Relayed(c)]
                /\ \E i \in 1..(broadcastIdx[c] - 1) :
                      clients_[i].socket_fd = w.to /\ clients_[i].ready
          /\ c \notin broadcastFailed[c]
          /\ \A i \in 1..(broadcastIdx[c] - 1) :
                (clients_[i].socket_fd # c /\ clients_[i].ready) =>
                    \/ clients_[i].socket_fd \in broadcastFailed[c]
                    \/ \E w \in broadcastWrote[c] : w.to = clients_[i].socket_fd
    /\ \A c \in Sockets : \A i \in 1..Len(toClient[c]) :
          LET message == receiveMessage(toClient[c][i])
          IN  message.type = AUDIO_DATA /\ message.data[1] # c

\* A sender whose own record is ready has finished relaying one message to
\* two other ready clients.
C2_Witness ==
    \E c \in Sockets :
        /\ handlerPc[c] = "broadcast"
        /\ broadcastIdx[c] > Len(clients_)
        /\ \E i \in 1..Len(clients_) : clients_[i].socket_fd = c /\ clients_[i].ready
        /\ Cardinality({ w.to : w \in broadcastWrote[c] }) = 2

\* C9: the handler thread relaying a sender's audio is never held in a send()
\* to a recipient whose socket cannot take the frame.
C9_SenderNeverBlockedOnRecipient == \A c \in Sockets : ~SendBlocked(c)

\* C10: decoding the bytes produced by encoding a message succeeds and yields
\* the message: identical header fields and a byte-identical payload, for
\* Message::serialize / deserialize and for NetworkManager::serializeMessage /
\* deserializeMessage.
C10_DecodeEncodeIsIdentity ==
    /\ msgOut # NoResult => (msgOut.ok /\ msgOut.decoded = msgIn)
    /\ nmOut # NoResult => (nmOut.ok /\ nmOut.decoded = nmIn)

\* Both codecs have decoded a message with a payload, a sequence number and a
\* timestamp that use more than one byte.
C10_Witness ==
    /\ msgOut # NoResult /\ nmOut # NoResult
    /\ Len(msgIn.data) = MaxPayloadLen
    /\ msgIn.sequence > 255 /\ msgIn.timestamp > 255
    /\ nmIn.type = AUDIO_DATA

\* The input is a 24-byte-header frame that the framing rules reject: a wrong
\* magic, a declared length below the header size, or fewer payload bytes
\* than declared before the peer closed.
RxMalformed ==
    /\ rxIn.format = "Message"
    /\ \/ rxIn.magic # MessageMagic
       \/ rxIn.length < SizeofMessageHeader
       \/ rxEof /\ Len(rxIn.data) < rxIn.length - SizeofMessageHeader

\* The input is a well-formed control message without payload.
RxControlMessage ==
    /\ rxIn.format = "Message"
    /\ rxIn.magic = MessageMagic
    /\ rxIn.length = SizeofMessageHeader

\* C11: on every receive path a call on a malformed input returns failure,
\* and a call on a well-formed control message with zero payload bytes
\* returns the message.
C11_DecodeRejectsMalformed ==
    \A p \in RxPaths :
        rxOut[p] # RxPending =>
            /\ RxMalformed => rxOut[p].status = "rejected"
            /\ RxControlMessage => rxOut[p].status = "accepted"

\* The largest frame length the framing rules allow.
MaxMessage == 65536

\* The declared length of the input, in the framing the path reads, is over
\* the cap.
RxOversize(p) ==
    /\ rxIn.length > MaxMessage
    /\ rxIn.format = (IF p = "NetworkManager::receiveMessage" THEN "Nm" ELSE "Message")
    /\ rxIn.magic = (IF rxIn.format = "Message" THEN MessageMagic ELSE 0)

\* C12: a frame whose declared length is over the cap is rejected, and no
\* payload buffer is allocated for it.
C12_OversizeRejectedUnread ==
    \A p \in RxPaths :
        (rxOut[p] # RxPending /\ RxOversize(p)) =>
            /\ rxOut[p].status = "rejected"
            /\ rxOut[p].allocated = U32Of(0)

\* C13: the output of a callback that asked for n samples while k were
\* buffered is the k oldest buffered samples in FIFO order followed by n - k
\* zeros (all n buffered samples when k >= n), and none of its samples was put
\* out by an earlier callback.
C13_UnderflowYieldsZeros ==
    LET n == Len(abOutput)
        k == IF n < Len(abHeld) THEN n ELSE Len(abHeld)
    IN  \A i \in 1..n :
            /\ abOutput[i] = (IF i <= k THEN abHeld[i] ELSE 0)
            /\ abOutput[i] \notin abPlayed

\* A callback found fewer samples than it asked for, but some, in a buffer
\* that had wrapped around and had been read before.
C13_Witness ==
    /\ 0 < Len(abHeld) /\ Len(abHeld) < Len(abOutput)
    /\ abPlayed # {}
    /\ abNext > AbCapacity

\* C14: a disconnect() that has begun on a connected client returns: both
\* threads have exited and are joined, the socket is closed, and the client is
\* neither connected nor active, whatever the server does.
C14_DisconnectTerminates ==
    (disconnectPc # "idle") ~>
        (/\ disconnectPc = "idle"
         /\ network_thread_ = "none" /\ jitterBufferThread_ = "none"
         /\ ~isConnected_ /\ ~connected_ /\ ~isAudioActive)

\* C15: after stopAudio on an active client, and unless the main thread makes
\* another call first, the capture and render streams are stopped, the ring
\* buffer is gone, the client is connected and not active, and the thread that
\* drains the jitter buffer eventually halts.
C15_StopAudioHaltsDrain ==
    (lastCall.op = "stopAudio") ~>
        \/ lastCall.op # "stopAudio"
        \/ /\ ~recording_ /\ ~playing_ /\ ~playback_buffer_
           /\ connected_ /\ ~isAudioActive
           /\ jitterBufferThread_ \in {"none", "exited"}

C17_AdaptationStepBounded ==
    /\ adaptiveMinBufferMs_ <= targetBufferSizeMs_
    /\ targetBufferSizeMs_ <= adaptiveMaxBufferMs_
    /\ adaptedFrom # NoSeq =>
          /\ averageJitter_ > jitterThresholdMs =>
                /\ adaptedFrom + 10 <= adaptiveMaxBufferMs_
                      => targetBufferSizeMs_ = adaptedFrom + 10
                /\ adaptedFrom + 10 > adaptiveMaxBufferMs_
                      => targetBufferSizeMs_ = adaptiveMaxBufferMs_
                /\ adaptedFrom < adaptiveMaxBufferMs_
                      => targetBufferSizeMs_ > adaptedFrom
          /\ 2 * averageJitter_ < jitterThresholdMs =>
                /\ adaptedFrom - 5 >= adaptiveMinBufferMs_
                      => targetBufferSizeMs_ = adaptedFrom - 5
                /\ adaptedFrom - 5 < adaptiveMinBufferMs_
                      => targetBufferSizeMs_ = adaptiveMinBufferMs_
          /\ (averageJitter_ <= jitterThresholdMs
                /\ 2 * averageJitter_ >= jitterThresholdMs)
                => targetBufferSizeMs_ = adaptedFrom

\* A step above the threshold was cut off at the maximum.
C17_Witness ==
    /\ adaptedFrom # NoSeq
    /\ averageJitter_ > jitterThresholdMs
    /\ adaptedFrom < adaptiveMaxBufferMs_
    /\ adaptedFrom + 10 > adaptiveMaxBufferMs_
    /\ targetBufferSizeMs_ = adaptiveMaxBufferMs_

\* clients_ holds a record of socket c; a record of c with ready set.
HasRecord(c) == \E i \in 1..Len(clients_) : clients_[i].socket_fd = c
RecordReady(c) == \E i \in 1..Len(clients_) : clients_[i].socket_fd = c /\ clients_[i].ready

\* Client c has sent CLIENT_READY and handleClientMessage has been through it.
ReadyDispatched(c) ==
    /\ audio_active_[c]
    /\ \A i \in 1..Len(toServer[c]) : Arrived[toServer[c][i]].type # CLIENT_READY

\* C18: once the server has dispatched the CLIENT_READY of a connected client
\* and the accept thread has finished with that client's connection, clients_
\* holds a record of the client with ready set.
C18_ReadyAppliedToRecord ==
    \A c \in Sockets :
        (ReadyDispatched(c) /\ ~peerClosed[c] /\ acceptSocket # c) => RecordReady(c)

\* C19: AUDIO_DATA is written only to a client whose record is ready, and a
\* record is ready only after the server has dispatched that client's own
\* CLIENT_READY; a record starts with ready cleared.
C19_RelayOnlyToReady ==
    \A c \in Sockets :
        /\ \A w \in broadcastWrote[c] : RecordReady(w.to)
        /\ toClient[c] # << >> => RecordReady(c)
        /\ (RecordReady(c) /\ ~peerClosed[c]) => ReadyDispatched(c)

\* A running broadcast has written to a ready client while the record of a
\* third client is not ready.
C19_Witness ==
    \E c \in Sockets :
        /\ handlerPc[c] = "broadcast"
        /\ broadcastWrote[c] # {}
        /\ \E e \in Sockets \ {c} : HasRecord(e) /\ ~RecordReady(e)

\* C20: after handleClient has left its loop on a socket error and is done
\* with the client, neither clients_ nor connectedClients_ holds the client.
C20_DepartedRecordAbsent ==
    \A c \in Sockets :
        handlerPc[c] = "done" =>
            /\ ~HasRecord(c)
            /\ \A i \in 1..Len(connectedClients_) : connectedClients_[i] # c

\* C21: no thread holds clients_mutex_ while it is inside a socket write: a
\* broadcast that still has a recipient to write to has released the mutex.
C21_MutexFreeDuringWrite ==
    \A c \in Sockets :
        (handlerPc[c] = "broadcast" /\ broadcastIdx[c] <= Len(clients_))
            => clients_mutex_ # c

\* The position of the frame among the frames its sender sent (the clock in
\* its timestamp), and its sender (the first payload byte).
SentAt(frame) == Arrived[frame].timestamp \div 256
SentBy(frame) == Arrived[frame].data[1]

AudioSentBefore(i) ==
    Cardinality({ j \in 1..(i - 1) : deserialize(csWire[j]).decoded.type = 1 })

\* C23: the k-th AUDIO_DATA message a sender puts on the wire (k = 0, 1, ...)
\* carries sequence number k, and control messages carry sequence 0.
C23_SequenceCountsAudioPackets ==
    \A i \in 1..Len(csWire) :
        LET m == deserialize(csWire[i]).decoded
        IN  m.sequence = IF m.type = 1 THEN AudioSentBefore(i) ELSE 0

\* C24: the sequence number under which a received AUDIO_DATA packet goes into
\* the recipient's jitter buffer is the one its sender gave it: the count of
\* the AUDIO_DATA packets that sender had sent before it.
C24_InsertedUnderSenderSequence ==
    \A i \in 1..Len(inserted) : inserted[i].sequenceNumber = inserted[i].sent

\* The pre-roll condition at a change of the ready flag to true: at least 3
\* packets in the store, or a non-empty store and more than 100 ms since its
\* first insertion.
PreRollMet(flip) == flip.size >= 3 \/ (flip.size > 0 /\ flip.waited > 100)

\* C25: the drain loop runs only while the jitter buffer is ready, and the
\* ready flag changes to true only in a state that meets the pre-roll
\* condition.
C25_ReadyOnlyAfterPreRoll ==
    /\ (jitterBufferThread_ = "drain" /\ packetsToProcess > 0) => clientJitterReady
    /\ readyFlip # NoFlip => PreRollMet(readyFlip)

\* C26: after an underrun has cleared the ready flag, no packet is emitted
\* until the pre-roll condition is met again: the flag is set again only in a
\* state that meets it, and the drain loop runs only while the flag is set.
C26_UnderrunForcesPreRoll ==
    /\ (underrunSeen /\ jitterBufferThread_ = "drain" /\ packetsToProcess > 0)
          => clientJitterReady
    /\ (readyFlip # NoFlip /\ readyFlip.rearm) => PreRollMet(readyFlip)

\* C27: after any interleaving of write, read and clear the fill is between 0
\* and the capacity and is the number of samples written and not yet read,
\* (write_pos - read_pos) mod capacity or the capacity when full, and those
\* samples are in their cells; a write larger than the free space stores the
\* oldest samples that fit, drops the rest and returns false.
C27_FillCountsUnreadSamples ==
    /\ 0 <= size_ /\ size_ <= AbCapacity
    /\ size_ = Len(abFifo)
    /\ (write_pos - read_pos) % AbCapacity = size_ % AbCapacity
    /\ \A i \in 1..Len(abFifo) :
           ab_buffer_[(read_pos + i - 1) % AbCapacity] = abFifo[i]
    /\ Len(abWrote.data) > abWrote.space =>
           /\ abWrote.stored = abWrote.space
           /\ ~abWrote.ok
    /\ (Len(abWrote.data) > 0 /\ Len(abWrote.data) <= abWrote.space) =>
           /\ abWrote.stored = Len(abWrote.data)
           /\ abWrote.ok

\* A write found unread samples and room for only part of what it was handed,
\* in a buffer that had been read from before: the buffer is now full with the
\* unread samples followed by the part that fitted.
C27_Witness ==
    /\ Len(abWrote.data) > abWrote.space /\ abWrote.space > 0
    /\ abWrote.space < AbCapacity
    /\ size_ = AbCapacity /\ read_pos # 0
    /\ abFifo[Len(abFifo)] = abWrote.data[abWrote.stored]

\* C28: neither audio callback ever waits: the output callback is never at
\* the lock of the ring buffer while a thread that is not a callback holds
\* it, and the capture callback is never inside a socket write that waits
\* for room in the send buffer.
C28_CallbacksNeverWait ==
    /\ ~(playPc = "lock" /\ bufferMutex = "jitter")
    /\ ~(capturePc = "send" /\ SendWaits)

\* Position of the first message of a type on the current connection, or 0.
FirstOf(type) ==
    IF \E i \in 1..Len(clientWire) : clientWire[i].type = type
    THEN CHOOSE i \in 1..Len(clientWire) :
             /\ clientWire[i].type = type
             /\ \A j \in 1..(i - 1) : clientWire[j].type # type
    ELSE 0

\* C29: on each connection the first message the client writes is
\* CLIENT_CONFIG, every CLIENT_READY is written with both streams started,
\* and every AUDIO_DATA comes after a CLIENT_READY, however the capture
\* callback interleaves with startAudio.
C29_HandshakeOrder ==
    /\ clientWire # << >> => clientWire[1].type = CLIENT_CONFIG
    /\ \A i \in 1..Len(clientWire) :
           /\ clientWire[i].type = CLIENT_READY => clientWire[i].streams
           /\ clientWire[i].type = AUDIO_DATA =>
                  (FirstOf(CLIENT_READY) > 0 /\ FirstOf(CLIENT_READY) < i)

\* A capture callback ran while startAudio had started the streams and not
\* yet set audio_active_, and the connection then carried CLIENT_CONFIG,
\* CLIENT_READY and AUDIO_DATA.
C29_Witness ==
    /\ captureSkipped
    /\ Len(clientWire) >= 3
    /\ clientWire[1].type = CLIENT_CONFIG
    /\ clientWire[2].type = CLIENT_READY
    /\ clientWire[3].type = AUDIO_DATA

\* C30: once a read of the receive thread or a write of the capture path has
\* failed, the client comes to be neither connected nor active, with both
\* streams stopped.
C30_IoFailureLeadsToIdle ==
    ioFailed ~> (~connected_ /\ ~isAudioActive /\ ~recording_ /\ ~playing_)

\* C31: every record of the server's table holds a configuration that
\* satisfies the AudioConfig invariant, and a CLIENT_CONFIG message that is
\* shorter than 12 bytes or carries values outside the allowed sets leaves the
\* table as it was.
C31_StoredConfigValid ==
    /\ \A i \in 1..Len(clientRecords) : AudioConfigValid(clientRecords[i])
    /\ (lastConfig.size < 12 \/ ~AudioConfigValid(lastConfig.config)) =>
           ~lastConfig.stored

\* C35: the server's table never holds two records of one socket, whatever
\* messages the clients send, and no broadcast writes a message more than once
\* to one recipient.
C35_OneRecordPerSocket ==
    /\ \A i, j \in 1..Len(clientRecords) :
           clientRecords[i].socket_fd = clientRecords[j].socket_fd => i = j
    /\ \A d \in DpSockets : lastWrites[d] <= 1

\* C38: a heartbeat exchange is finite: the server writes to a client's
\* socket no more echoes than that client began heartbeats.
C38_HeartbeatEchoedOnce ==
    \A c \in DpSockets : hbEchoes[c] <= hbInitiated[c]

\* C32: no thread waits for the jitter-buffer mutex while it holds it itself:
\* the missing-packet scan of RenderSourceProcess is never blocked on the
\* lock it took for the iteration.
C32_ScanNeverRelocks ==
    jitterBufferMutex_ # "RenderSourceProcess"

\* C33: the jitter thread never writes into the playback ring buffer after
\* stopAudio has released it.
C33_NoWriteAfterRelease ==
    ~wroteFreed

\* C34: at most one thread is inside a frame write to a given socket at any
\* time, and the bytes of two frames written to one socket are never
\* interleaved.
C34_FramesNotInterleaved ==
    \A s \in WriteSockets :
        /\ \A v, w \in Writers :
               (SocketOf(v) = s /\ SocketOf(w) = s
                    /\ writerPc[v] = "send" /\ writerPc[w] = "send") => v = w
        /\ \A i, j, k \in 1..Len(socketBytes[s]) :
               (i < j /\ j < k /\ socketBytes[s][i] = socketBytes[s][k]) =>
                   socketBytes[s][j] = socketBytes[s][i]
\* C39: after resetJitterBuffer has returned and before any later insertion the
\* store is empty, the buffer is not ready and expectedSequenceNumber_ has its
\* initial value 1, also when jitterBufferWorker had removed a packet before.
C39_ResetHolds ==
    sinceReset => /\ jitterBuffer_ = << >>
                  /\ ~jitterBufferReady_
                  /\ expectedSequenceNumber_ = 1
\* C36: when AudioServer::stop has returned, the accept thread and every
\* handler thread have exited, no handler dispatches or touches the client table
\* any more, and the table is empty.
C36_StopLeavesNoThread ==
    serverStopPc = "returned" =>
        /\ serverLoopPc = "exited"
        /\ \A c \in StSockets : handleClientPc[c] \in {"none", "exited"}
        /\ ~lateTouch
        /\ serverTable = {}

\* C37: every accepted client socket is closed exactly once: no descriptor gets
\* a second closesocket() call, from stopServer and its handler thread or
\* from any other two paths.
C37_SocketClosedOnce == \A c \in StSockets : closeCount[c] <= 1
\* C40: after any sequence of queueAudioData, fillOutputBuffer,
\* processPlaybackQueue and clearAudioQueue, queueSize_ is the number of samples
\* held in audioQueue_, totalDroppedSamples_ is the number of samples evicted,
\* and the eviction has never read the front of an empty queue.
C40_QueueAccounting ==
    /\ queueSize_ = QueuedSamples(audioQueue_)
    /\ totalDroppedSamples_ = evictedSamples
    /\ ~frontOfEmpty

====
